---------------------------- MODULE Spec2Model ----------------------------
(***************************************************************************)
(* forge-npm-pkg: the version resolvers (npm registry, GitHub Actions,     *)
(* Node.js LTS) and the package.json generator, as state machines.         *)
(*                                                                         *)
(* A JavaScript string is a sequence of one-character strings, except      *)
(* that a literal chunk of a template literal and an opaque name (a        *)
(* package name) is kept as one element.  A number is an integer or NaN.   *)
(***************************************************************************)
EXTENDS Integers, Sequences, FiniteSets, TLC

VARIABLES
    \* generateWarning(pkg, version, daysOld)
    warnIn,         \* the arguments of the call
    warnOut,        \* <<>> before the call returns, then <<value>>
    \* getLatestVersionWithFallback / fetchLatestVersions
    packageNames,   \* the argument of fetchLatestVersions
    pc,             \* per call: where the async function stands
    result,         \* per call: the VersionResult the call resolved with
    reqs,           \* per call: the requests issued so far, in order
    seen,           \* per call: what each request of the call ended with, in order
    versionMap,     \* <<>>, then <<the Map fetchLatestVersions resolves with>>
    mapWrites,      \* per key: how often the Map constructor set it
    \* fetchLatestActionVersions
    apc,            \* per supported action: where fetchLatestMajorVersion stands
    aresult,        \* per supported action: its ActionVersionResult
    aseen,          \* per supported action: what its request ended with
    actionMap,      \* <<>>, then <<the Map fetchLatestActionVersions resolves with>>
    \* getNodeLTSVersions
    npc,            \* where getNodeLTSVersions stands
    now,            \* Date.now() of the run, in hours since 2023-01-01T00:00Z
    nseen,          \* what the request of getNodeLTSVersions ended with
    nodeConfig,     \* <<>>, then <<the NodeVersionConfig it resolved with>>
    \* generatePackageJson(config)
    config,         \* the ProjectConfig
    pkg,            \* <<>> before the call returns, then <<the manifest>>
    \* generateCIWorkflow(config, nodeConfig, actionVersions)
    ciIn,           \* the arguments of the call
    ciOut,          \* <<>> before the call returns, then <<the workflow>>
    \* generateCDWorkflow(nodeConfig, actionVersions), on the same arguments
    cdOut,          \* <<>> before the call returns, then <<the workflow>>
    \* compareVersions and the sort of getStableFallbackVersion
    cmpIn,          \* the versions compared and sorted
    cmpOut          \* <<>> before the calls return, then <<their results>>

vars == <<warnIn, warnOut, packageNames, pc, result, reqs, seen,
          versionMap, mapWrites, apc, aresult, aseen, actionMap, npc, now,
          nseen, nodeConfig, config, pkg, ciIn, ciOut, cdOut, cmpIn, cmpOut>>

warnVars == <<warnIn, warnOut, cmpIn, cmpOut>>
npmVars  == <<packageNames, pc, result, reqs, seen, versionMap, mapWrites>>
actVars  == <<apc, aresult, aseen, actionMap>>
nodeVars == <<npc, now, nseen, nodeConfig>>
genVars  == <<config, pkg, ciIn, ciOut, cdOut>>

----------------------------------------------------------------------------
(* Bounds of the model *)

\* version components are drawn from 0..MaxComp
MaxComp == 2
\* ages passed to generateWarning are drawn from -1..MaxDays (and 100)
MaxDays == 31
\* fetchLatestVersions is called with at most MaxPkgs names
MaxPkgs == 2
\* a registry metadata body lists at most MaxKeys versions
MaxKeys == 2
\* a GitHub releases body lists at most MaxReleases releases
MaxReleases == 2
\* the index of nodejs.org lists at most MaxEntries versions
MaxEntries == 3

----------------------------------------------------------------------------
(* JavaScript values *)

\* the value undefined (of a string-valued field)
undefined == <<"undefined">>

\* Number(...) of a string that is no number; no comparison with it holds
NaN == -1000000

Digits == <<"0", "1", "2", "3", "4", "5", "6", "7", "8", "9">>

IsDigit(c) == \E i \in 1..10 : Digits[i] = c

DigitVal(c) == CHOOSE i \in 0..9 : Digits[i + 1] = c

\* /^\d+$/ on a string
AllDigits(s) == Len(s) > 0 /\ \A i \in 1..Len(s) : IsDigit(s[i])

RECURSIVE DecValue(_)
DecValue(s) ==
    IF s = <<>> THEN 0
    ELSE 10 * DecValue(SubSeq(s, 1, Len(s) - 1)) + DigitVal(s[Len(s)])

\* Number(s) for a string over digits, '-' and letters
Number(s) ==
    IF s = <<>> THEN 0
    ELSE IF AllDigits(s) THEN DecValue(s)
    ELSE IF Head(s) = "-" /\ AllDigits(Tail(s)) THEN 0 - DecValue(Tail(s))
    ELSE NaN

\* String(n) / `${n}` for a number
RECURSIVE NatStr(_)
NatStr(n) ==
    IF n < 10 THEN <<Digits[n + 1]>>
    ELSE NatStr(n \div 10) \o <<Digits[(n % 10) + 1]>>

NumStr(n) ==
    IF n = NaN THEN <<"NaN">>
    ELSE IF n < 0 THEN <<"-">> \o NatStr(0 - n)
    ELSE NatStr(n)

\* s.split('.')
RECURSIVE SplitDot(_)
SplitDot(s) ==
    IF \A i \in 1..Len(s) : s[i] # "."
    THEN <<s>>
    ELSE LET k == CHOOSE i \in 1..Len(s) :
                      s[i] = "." /\ \A j \in 1..(i - 1) : s[j] # "."
         IN  <<SubSeq(s, 1, k - 1)>> \o SplitDot(SubSeq(s, k + 1, Len(s)))

\* parts[i] of s.split('.').map(Number); undefined compares like NaN
Part(s, i) ==
    LET parts == SplitDot(s)
    IN  IF i <= Len(parts) THEN Number(parts[i]) ELSE NaN

\* a > b and a < b on numbers
Gt(a, b) == a # NaN /\ b # NaN /\ a > b
Lt(a, b) == a # NaN /\ b # NaN /\ a < b

\* s.includes(c) for a one-character c; also: a chunk occurs in a message
Includes(s, c) == \E i \in 1..Len(s) : s[i] = c

\* "x.y.z"
Ver(x, y, z) == NatStr(x) \o <<".">> \o NatStr(y) \o <<".">> \o NatStr(z)

----------------------------------------------------------------------------
(* generateWarning *)

NewMajorLine == "   New major version - may contain breaking changes.\n"
DowngradeLine == "   If issues occur, downgrade: npm install "
EarlyMinorLine == "   Recently released - may have early bugs."

WarningHead(p, version, daysOld) ==
    <<"(!)  ", p, "@">> \o version \o <<" (">> \o NumStr(daysOld)
        \o <<" day", (IF daysOld = 1 THEN "" ELSE "s"), " old)\n">>

generateWarning_x00only(p, version, daysOld) ==
    LET major == Part(version, 1)
        minor == Part(version, 2)
        patch == Part(version, 3)
    IN  IF minor = 0 /\ patch = 0 /\ Lt(daysOld, 30)
        THEN WarningHead(p, version, daysOld)
                 \o <<NewMajorLine, DowngradeLine, p, "@">>
                 \o NumStr(IF major = NaN THEN NaN ELSE major - 1)
        ELSE IF minor = 1 /\ Lt(daysOld, 14)
        THEN WarningHead(p, version, daysOld) \o <<EarlyMinorLine>>
        ELSE undefined

generateWarning(p, version, daysOld) ==
    LET major == Part(version, 1)
        minor == Part(version, 2)
    IN  IF minor = 0 /\ Lt(daysOld, 30)
        THEN WarningHead(p, version, daysOld)
                 \o <<NewMajorLine, DowngradeLine, p, "@">>
                 \o NumStr(IF major = NaN THEN NaN ELSE major - 1)
        ELSE IF minor = 1 /\ Lt(daysOld, 14)
        THEN WarningHead(p, version, daysOld) \o <<EarlyMinorLine>>
        ELSE undefined


----------------------------------------------------------------------------
(* compareVersions, getStableFallbackVersion, getLatestVersionWithFallback *)

RECURSIVE compareFrom(_, _, _)
compareFrom(a, b, i) ==
    IF i > 3 THEN 0
    ELSE IF Gt(Part(a, i), Part(b, i)) THEN 1
    ELSE IF Lt(Part(a, i), Part(b, i)) THEN -1
    ELSE compareFrom(a, b, i + 1)

compareVersions_asStrings(a, b) ==
    LET first == {i \in 1..Len(a) : i > Len(b) \/ a[i] # b[i]}
        k == CHOOSE i \in first : \A j \in first : i <= j
        code(c) == IF c = "." THEN -1 ELSE DigitVal(c)
    IN  IF a = b THEN 0
        ELSE IF first = {} THEN -1
        ELSE IF k > Len(b) THEN 1
        ELSE IF code(a[k]) > code(b[k]) THEN 1 ELSE -1

compareVersions(a, b) == compareFrom(a, b, 1)

\* Array.prototype.sort(compareVersions): a stable sort, here by insertion
RECURSIVE InsertSorted(_, _)
InsertSorted(sorted, v) ==
    IF sorted = <<>> THEN <<v>>
    ELSE IF compareVersions(sorted[Len(sorted)], v) <= 0
    THEN Append(sorted, v)
    ELSE Append(InsertSorted(SubSeq(sorted, 1, Len(sorted) - 1), v),
                sorted[Len(sorted)])

RECURSIVE SortVersions(_)
SortVersions(s) ==
    IF s = <<>> THEN <<>>
    ELSE InsertSorted(SortVersions(SubSeq(s, 1, Len(s) - 1)), s[Len(s)])

Reverse_identity(s) == s

Reverse(s) == [i \in 1..Len(s) |-> s[Len(s) + 1 - i]]

\* /^\d+\.\d+\.\d+$/.test(v)
IsStrictSemver(v) ==
    LET parts == SplitDot(v)
    IN  Len(parts) = 3 /\ \A i \in 1..3 : AllDigits(parts[i])

\* .filter(v => !v.includes('-'))
RECURSIVE FilterNoHyphen(_)
FilterNoHyphen(s) ==
    IF s = <<>> THEN <<>>
    ELSE (IF ~Includes(Head(s), "-") THEN <<Head(s)>> ELSE <<>>)
             \o FilterNoHyphen(Tail(s))

\* .filter(v => /^\d+\.\d+\.\d+$/.test(v))
RECURSIVE FilterStrict(_)
FilterStrict(s) ==
    IF s = <<>> THEN <<>>
    ELSE (IF IsStrictSemver(Head(s)) THEN <<Head(s)>> ELSE <<>>)
             \o FilterStrict(Tail(s))

\* Math.floor((Date.now() - publishedAt.getTime()) / 86400000) of a time entry
\* t: <<>> when the body has no entry (new Date(Date.now())), else <<age in
\* hours>>, NaN for an entry that is no date
DaysOld(t) ==
    IF t = <<>> THEN 0
    ELSE IF t[1] = NaN THEN NaN
    ELSE t[1] \div 24

Caret(v) == <<"^">> \o v

Latest == <<"l", "a", "t", "e", "s", "t">>

CouldNotFetch == "Could not fetch"

\* an exception, and a returned value
Throw == [threw |-> TRUE]
Return(v) == [threw |-> FALSE, value |-> v]

\* the first version of the list that is at least 30 days old
RECURSIVE FirstOldEnough(_, _)
FirstOldEnough(versions, body) ==
    IF versions = <<>> THEN <<>>
    ELSE LET d == DaysOld(body.time[Head(versions)])
         IN  IF d # NaN /\ d >= 30
             THEN <<Head(versions)>>
             ELSE FirstOldEnough(Tail(versions), body)

StableFromBody_unflagged(name, body) ==
    IF body.json # "object" THEN Throw
    ELSE
      LET stableVersions ==
              Reverse(SortVersions(FilterStrict(FilterNoHyphen(body.keys))))
          old == FirstOldEnough(stableVersions, body)
      IN  IF Len(stableVersions) = 0 THEN Throw
          ELSE IF old # <<>>
          THEN Return([version |-> Caret(old[1]),
                       usedFallback |-> TRUE,
                       warning |-> <<"(i)  Using stable fallback: ", name, "@">>
                           \o old[1] \o <<" (">>
                           \o NumStr(DaysOld(body.time[old[1]]))
                           \o <<" days old)">>])
          ELSE Return([version |-> Caret(stableVersions[1]),
                       warning |-> <<"(i)  Using fallback: ", name, "@">>
                           \o stableVersions[1]])

\* lines 74-108: the try block of getStableFallbackVersion once the response
\* is there and OK.  A body: [json |-> "unparsable"], [json |-> "null"] or
\* [json |-> "object", keys |-> Object.keys(data.versions || {}),
\*  time |-> per key, its time entry]
StableFromBody(name, body) ==
    IF body.json # "object" THEN Throw
    ELSE
      LET stableVersions ==
              Reverse(SortVersions(FilterStrict(FilterNoHyphen(body.keys))))
          old == FirstOldEnough(stableVersions, body)
      IN  IF Len(stableVersions) = 0 THEN Throw
          ELSE IF old # <<>>
          THEN Return([version |-> Caret(old[1]),
                       usedFallback |-> TRUE,
                       warning |-> <<"(i)  Using stable fallback: ", name, "@">>
                           \o old[1] \o <<" (">>
                           \o NumStr(DaysOld(body.time[old[1]]))
                           \o <<" days old)">>])
          ELSE Return([version |-> Caret(stableVersions[1]),
                       usedFallback |-> TRUE,
                       warning |-> <<"(i)  Using fallback: ", name, "@">>
                           \o stableVersions[1]])

LastResort_noName(name) ==
    [version |-> Latest,
     usedFallback |-> TRUE,
     warning |-> <<"(!)  ", CouldNotFetch, " versions, using \"latest\"">>]

\* lines 110-117: the catch block of getStableFallbackVersion
LastResort(name) ==
    [version |-> Latest,
     usedFallback |-> TRUE,
     warning |-> <<"(!)  ", CouldNotFetch, " ", name,
                   " versions, using \"latest\"">>]

\* lines 135-142: the try block of getLatestVersionWithFallback once the
\* response is there and OK.  A body: [json |-> "unparsable"],
\* [json |-> "null"], or [json |-> "object", vkind |-> "missing" | "number" |
\* "string", version |-> the string, time |-> the time entry of that version]
PrimaryFromBody(name, body) ==
    IF body.json # "object" THEN Throw
    ELSE IF body.vkind # "string" THEN Throw     \* version.split is no function
    ELSE Return([version |-> Caret(body.version),
                 warning |-> generateWarning(name, body.version,
                                             DaysOld(body.time))])

\* What a request ended with: [status, end, body].  status: "ok" when
\* the response arrived with an OK status, "notok" with another status,
\* "none" when no response arrived; end: "network" (fetch or the body stream
\* failed), "timeout" (AbortSignal.timeout(5000) fired), "status" (the
\* non-OK status was thrown), "body" (the body was read: body.json says
\* whether it parsed).
Ended(req, status, end, body) ==
    [req |-> req, status |-> status, end |-> end, body |-> body]

NoBody == [json |-> "none"]

PrimaryTry_alwaysThrows(name, ev) == Throw

\* lines 126-143: what the try block of getLatestVersionWithFallback ends
\* with, given how its request ended
PrimaryTry(name, ev) ==
    IF ev.end = "body" THEN PrimaryFromBody(name, ev.body) ELSE Throw

getStableFallbackVersion_noCatch(name, ev) ==
    IF ev.end = "body" THEN StableFromBody(name, ev.body) ELSE Throw

\* lines 62-118: what getStableFallbackVersion resolves with, given how its
\* request ended
getStableFallbackVersion(name, ev) ==
    LET tried == IF ev.end = "body" THEN StableFromBody(name, ev.body)
                 ELSE Throw
    IN  IF tried.threw THEN Return(LastResort(name)) ELSE tried

----------------------------------------------------------------------------
(* The async steps of fetchLatestVersions / getLatestVersionWithFallback *)

Calls == 1..Len(packageNames)

\* lines 156-158 and 128-131: the call runs every callback up to its first
\* await, so every '/latest' request is issued before any answer is handled
FetchLatestVersions ==
    /\ Calls # {}
    /\ \A i \in Calls : pc[i] = "start"
    /\ pc' = [i \in Calls |-> "awaitLatest"]
    /\ reqs' = [i \in Calls |-> <<"latest">>]
    /\ UNCHANGED <<packageNames, result, seen, versionMap, mapWrites>>
    /\ UNCHANGED <<warnVars, actVars, nodeVars, genVars>>

\* line 133: the response to '/latest' arrives
LatestResponds(i, ok) ==
    /\ pc[i] = "awaitLatest"
    /\ IF ok
       THEN /\ pc' = [pc EXCEPT ![i] = "awaitLatestBody"]
            /\ UNCHANGED <<reqs, seen>>
       ELSE \* throw new Error(`HTTP ...`), caught at line 144
            /\ pc' = [pc EXCEPT ![i] = "awaitMeta"]
            /\ reqs' = [reqs EXCEPT ![i] = Append(@, "meta")]
            /\ seen' = [seen EXCEPT ![i] =
                           Append(@, Ended("latest", "notok", "status", NoBody))]
    /\ UNCHANGED <<packageNames, result, versionMap, mapWrites>>
    /\ UNCHANGED <<warnVars, actVars, nodeVars, genVars>>

\* lines 128-147: the '/latest' request ends (end: "network", "timeout" or
\* "body"); a returned value resolves the call, an exception is caught and
\* getStableFallbackVersion issues the metadata request (lines 67-70)
LatestEnds(i, end, body) ==
    /\ pc[i] \in {"awaitLatest", "awaitLatestBody"}
    /\ end = "body" => pc[i] = "awaitLatestBody"
    /\ LET ev == Ended("latest",
                       IF pc[i] = "awaitLatestBody" THEN "ok" ELSE "none",
                       end, body)
           tried == PrimaryTry(packageNames[i], ev)
       IN  /\ seen' = [seen EXCEPT ![i] = Append(@, ev)]
           /\ IF tried.threw
              THEN /\ pc' = [pc EXCEPT ![i] = "awaitMeta"]
                   /\ reqs' = [reqs EXCEPT ![i] = Append(@, "meta")]
                   /\ UNCHANGED result
              ELSE /\ pc' = [pc EXCEPT ![i] = "done"]
                   /\ result' = [result EXCEPT ![i] = <<tried.value>>]
                   /\ UNCHANGED reqs
    /\ UNCHANGED <<packageNames, versionMap, mapWrites>>
    /\ UNCHANGED <<warnVars, actVars, nodeVars, genVars>>

LatestNetworkError(i) == LatestEnds(i, "network", NoBody)
LatestTimeout_headersOnly(i) ==
    /\ pc[i] = "awaitLatest"
    /\ LatestEnds(i, "timeout", NoBody)

\* line 130: AbortSignal.timeout(5000) fires, before the response or while
\* the body is read
LatestTimeout(i) == LatestEnds(i, "timeout", NoBody)
LatestBody(i, body) == LatestEnds(i, "body", body)

\* line 72: the response to the metadata request arrives
MetaResponds(i, ok) ==
    /\ pc[i] = "awaitMeta"
    /\ IF ok
       THEN /\ pc' = [pc EXCEPT ![i] = "awaitMetaBody"]
            /\ UNCHANGED <<result, seen>>
       ELSE \* throw new Error(`HTTP ...`), caught at line 110
            LET ev == Ended("meta", "notok", "status", NoBody)
                got == getStableFallbackVersion(packageNames[i], ev)
            IN  /\ seen' = [seen EXCEPT ![i] = Append(@, ev)]
                /\ pc' = [pc EXCEPT ![i] =
                             IF got.threw THEN "threw" ELSE "done"]
                /\ result' = [result EXCEPT ![i] =
                                 IF got.threw THEN <<>> ELSE <<got.value>>]
    /\ UNCHANGED <<packageNames, reqs, versionMap, mapWrites>>
    /\ UNCHANGED <<warnVars, actVars, nodeVars, genVars>>

\* lines 62-118 and 146: the metadata request ends; what
\* getStableFallbackVersion resolves with resolves the call
MetaEnds(i, end, body) ==
    /\ pc[i] \in {"awaitMeta", "awaitMetaBody"}
    /\ end = "body" => pc[i] = "awaitMetaBody"
    /\ LET ev == Ended("meta",
                       IF pc[i] = "awaitMetaBody" THEN "ok" ELSE "none",
                       end, body)
           got == getStableFallbackVersion(packageNames[i], ev)
       IN  /\ seen' = [seen EXCEPT ![i] = Append(@, ev)]
           /\ pc' = [pc EXCEPT ![i] = IF got.threw THEN "threw" ELSE "done"]
           /\ result' = [result EXCEPT ![i] =
                            IF got.threw THEN <<>> ELSE <<got.value>>]
    /\ UNCHANGED <<packageNames, reqs, versionMap, mapWrites>>
    /\ UNCHANGED <<warnVars, actVars, nodeVars, genVars>>

MetaNetworkError(i) == MetaEnds(i, "network", NoBody)

MetaTimeout_retries(i) ==
    /\ pc[i] \in {"awaitMeta", "awaitMetaBody"}
    /\ seen' = [seen EXCEPT ![i] =
                   Append(@, Ended("meta", "none", "timeout", NoBody))]
    /\ reqs' = [reqs EXCEPT ![i] = Append(@, "meta")]
    /\ pc' = [pc EXCEPT ![i] = "awaitMeta"]
    /\ UNCHANGED <<packageNames, result, versionMap, mapWrites>>
    /\ UNCHANGED <<warnVars, actVars, nodeVars, genVars>>

MetaTimeout(i) == MetaEnds(i, "timeout", NoBody)
MetaBody(i, body) == MetaEnds(i, "body", body)

RECURSIVE MapOf_firstWins(_)
MapOf_firstWins(entries) ==
    IF entries = <<>> THEN <<>>
    ELSE LET m == MapOf_firstWins(SubSeq(entries, 1, Len(entries) - 1))
             e == entries[Len(entries)]
         IN  [k \in (DOMAIN m) \cup {e[1]} |->
                 IF k \in DOMAIN m THEN m[k] ELSE e[2]]

\* new Map(entries) for a list of [key, value] pairs: each pair is set in
\* order, a later one replacing an earlier one of the same key
RECURSIVE MapOf(_)
MapOf(entries) ==
    IF entries = <<>> THEN <<>>
    ELSE LET m == MapOf(SubSeq(entries, 1, Len(entries) - 1))
             e == entries[Len(entries)]
         IN  [k \in (DOMAIN m) \cup {e[1]} |->
                 IF k = e[1] THEN e[2] ELSE m[k]]

\* how often new Map(entries) sets each key
WritesOf(entries) ==
    [k \in {entries[i][1] : i \in DOMAIN entries} |->
        Cardinality({i \in DOMAIN entries : entries[i][1] = k})]

\* lines 156 and 163: Promise.all resolves with the results in the order of
\* packageNames once every call has resolved; the Map is built from them
BuildMap ==
    /\ versionMap = <<>>
    /\ \A i \in Calls : pc[i] = "done"
    /\ LET results == [i \in Calls |->
                          [name |-> packageNames[i], result |-> result[i][1]]]
           entries == [i \in Calls |-> <<results[i].name, results[i].result>>]
       IN  /\ versionMap' = <<MapOf(entries)>>
           /\ mapWrites' = WritesOf(entries)
    /\ UNCHANGED <<packageNames, pc, result, reqs, seen>>
    /\ UNCHANGED <<warnVars, actVars, nodeVars, genVars>>

----------------------------------------------------------------------------
(* extractMajorVersion, fetchLatestMajorVersion, fetchLatestActionVersions *)

\* the longest prefix of digits
RECURSIVE LeadingDigits(_)
LeadingDigits(s) ==
    IF s = <<>> \/ ~IsDigit(Head(s)) THEN <<>>
    ELSE <<Head(s)>> \o LeadingDigits(Tail(s))

extractMajorVersion_requiresV(tag) ==
    IF tag # <<>> /\ Head(tag) = "v" /\ LeadingDigits(Tail(tag)) # <<>>
    THEN <<DecValue(LeadingDigits(Tail(tag)))>>
    ELSE <<>>

\* lines 24-27: tag.match(/^v?(\d+)/), then parseInt; <<>> is null, <<n>> the
\* number
extractMajorVersion(tag) ==
    LET rest == IF tag # <<>> /\ Head(tag) = "v" THEN Tail(tag) ELSE tag
        digits == LeadingDigits(rest)
    IN  IF digits = <<>> THEN <<>> ELSE <<DecValue(digits)>>

\* line 59: releases.filter(r => !r.draft && !r.prerelease)
RECURSIVE FilterStable(_)
FilterStable(releases) ==
    IF releases = <<>> THEN <<>>
    ELSE IF ~Head(releases).draft /\ ~Head(releases).prerelease
         THEN <<Head(releases)>> \o FilterStable(Tail(releases))
         ELSE FilterStable(Tail(releases))

\* lines 66-72: the loop over the stable releases
RECURSIVE HighestMajor(_, _)
HighestMajor(releases, highestMajor) ==
    IF releases = <<>> THEN highestMajor
    ELSE LET major == extractMajorVersion(Head(releases).tag_name)
         IN  HighestMajor(Tail(releases),
                          IF major # <<>> /\ major[1] > highestMajor
                          THEN major[1] ELSE highestMajor)

\* `v${n}`
MajorTag(n) == <<"v">> \o NatStr(n)

\* line 85: the tag of the catch block
DefaultTag == <<"v", "5">>

\* lines 84-88: the result of the catch block of fetchLatestMajorVersion
DefaultResult(owner, repo) ==
    [version |-> DefaultTag,
     usedFallback |-> TRUE,
     warning |-> <<"(!)  ", CouldNotFetch, " ", owner, "/", repo,
                   " version, using v5">>]

\* lines 56-80: the try block of fetchLatestMajorVersion once the response is
\* there and OK.  A body: [json |-> "unparsable" | "object" | "array",
\* releases |-> the elements of the array]; a release: [tag_name, prerelease,
\* draft], tag_name undefined when the element has none
MajorFromBody(body) ==
    IF body.json # "array" THEN Throw            \* releases.filter is no function
    ELSE
      LET stableReleases == FilterStable(body.releases)
      IN  IF Len(stableReleases) = 0 THEN Throw
          ELSE IF \E i \in DOMAIN stableReleases :
                      stableReleases[i].tag_name = undefined
          THEN Throw                             \* tag.match of undefined
          ELSE LET highestMajor == HighestMajor(stableReleases, 0)
               IN  IF highestMajor = 0 THEN Throw
                   ELSE Return([version |-> MajorTag(highestMajor)])

fetchLatestMajorVersion_noCatch(owner, repo, ev) ==
    IF ev.end = "body" THEN MajorFromBody(ev.body) ELSE Throw

\* lines 35-90: what fetchLatestMajorVersion resolves with, given how its
\* request ended
fetchLatestMajorVersion(owner, repo, ev) ==
    LET tried == IF ev.end = "body" THEN MajorFromBody(ev.body) ELSE Throw
    IN  IF tried.threw THEN Return(DefaultResult(owner, repo)) ELSE tried

\* lines 101-106
SUPPORTED_ACTIONS ==
    << [owner |-> "actions", repo |-> "checkout", key |-> "actions/checkout"],
       [owner |-> "actions", repo |-> "setup-node",
        key |-> "actions/setup-node"],
       [owner |-> "codecov", repo |-> "codecov-action",
        key |-> "codecov/codecov-action"],
       [owner |-> "dependabot", repo |-> "fetch-metadata",
        key |-> "dependabot/fetch-metadata"] >>

Actions == DOMAIN SUPPORTED_ACTIONS

\* lines 126-131
FALLBACK_VERSIONS ==
    "actions/checkout" :> <<"v", "5">>
    @@ "actions/setup-node" :> <<"v", "6">>
    @@ "codecov/codecov-action" :> <<"v", "5">>
    @@ "dependabot/fetch-metadata" :> <<"v", "2">>

\* lines 113-115 and 41-50: every callback runs up to its first await, so the
\* four releases requests are issued before any answer is handled
FetchLatestActionVersions ==
    /\ DOMAIN apc = Actions
    /\ \A i \in Actions : apc[i] = "start"
    /\ apc' = [i \in Actions |-> "awaitReleases"]
    /\ UNCHANGED <<aresult, aseen, actionMap>>
    /\ UNCHANGED <<warnVars, npmVars, nodeVars, genVars>>

\* lines 35-90: the releases request of action i ends with ev, which resolves
\* fetchLatestMajorVersion
ReleasesEnds(i, ev) ==
    LET a == SUPPORTED_ACTIONS[i]
        got == fetchLatestMajorVersion(a.owner, a.repo, ev)
    IN  /\ aseen' = [aseen EXCEPT ![i] = Append(@, ev)]
        /\ apc' = [apc EXCEPT ![i] = IF got.threw THEN "threw" ELSE "done"]
        /\ aresult' = [aresult EXCEPT ![i] =
                          IF got.threw THEN <<>> ELSE <<got.value>>]
        /\ UNCHANGED actionMap
        /\ UNCHANGED <<warnVars, npmVars, nodeVars, genVars>>

\* lines 52-54: the response arrives; a non-OK status is thrown and caught
ReleasesResponds(i, ok) ==
    /\ apc[i] = "awaitReleases"
    /\ IF ok
       THEN /\ apc' = [apc EXCEPT ![i] = "awaitBody"]
            /\ UNCHANGED <<aresult, aseen, actionMap>>
            /\ UNCHANGED <<warnVars, npmVars, nodeVars, genVars>>
       ELSE ReleasesEnds(i, Ended("releases", "notok", "status", NoBody))

\* the status the request has when it ends now
ReleasesStatus(i) == IF apc[i] = "awaitBody" THEN "ok" ELSE "none"

\* lines 41-50: fetch, or the read of the body, rejects
ReleasesNetworkError(i) ==
    /\ apc[i] \in {"awaitReleases", "awaitBody"}
    /\ ReleasesEnds(i, Ended("releases", ReleasesStatus(i), "network", NoBody))

\* line 44: AbortSignal.timeout(5000) fires
ReleasesTimeout(i) ==
    /\ apc[i] \in {"awaitReleases", "awaitBody"}
    /\ ReleasesEnds(i, Ended("releases", ReleasesStatus(i), "timeout", NoBody))

\* line 56: the body is read
ReleasesBody(i, body) ==
    /\ apc[i] = "awaitBody"
    /\ ReleasesEnds(i, Ended("releases", "ok", "body", body))

\* lines 113-120: Promise.all resolves with the results in the order of
\* SUPPORTED_ACTIONS once every call has resolved; the Map is built from them
BuildActionMap ==
    /\ actionMap = <<>>
    /\ DOMAIN apc = Actions
    /\ \A i \in Actions : apc[i] = "done"
    /\ LET results == [i \in Actions |->
                          [key |-> SUPPORTED_ACTIONS[i].key,
                           result |-> aresult[i][1]]]
           entries == [i \in Actions |-> <<results[i].key, results[i].result>>]
       IN  actionMap' = <<MapOf(entries)>>
    /\ UNCHANGED <<apc, aresult, aseen>>
    /\ UNCHANGED <<warnVars, npmVars, nodeVars, genVars>>

----------------------------------------------------------------------------
(* isPastEOL, getNodeLTSVersions.  A time is a number of hours since        *)
(* 2023-01-01T00:00Z.                                                      *)

FALLBACK_NODE_CONFIG_stale ==
    [minimum |-> 18,
     engines |-> <<">=", "1", "8", ".0.0">>,
     ciMatrix |-> <<18, 20>>,
     latestLTS |-> 22]

\* lines 23-28
FALLBACK_NODE_CONFIG ==
    [minimum |-> 20,
     engines |-> <<">=", "2", "0", ".0.0">>,
     ciMatrix |-> <<20, 22>>,
     latestLTS |-> 22]

\* lines 34-42: new Date('yyyy-mm-dd') is midnight UTC of that day
EOL_DATES ==
    (16 :> 253 * 24)          \* 2023-09-11
    @@ (18 :> 850 * 24)       \* 2025-04-30
    @@ (20 :> 1215 * 24)      \* 2026-04-30
    @@ (22 :> 1580 * 24)      \* 2027-04-30
    @@ (24 :> 1946 * 24)      \* 2028-04-30
    @@ (26 :> 2311 * 24)      \* 2029-04-30

\* lines 33-51, at time t
isPastEOL(majorVersion, t) ==
    IF majorVersion \notin DOMAIN EOL_DATES THEN FALSE
    ELSE t > EOL_DATES[majorVersion]

\* line 70: parseInt(v.version.match(/^v(\d+)/)?.[1] || '0')
ParseMajor(version) ==
    IF version # <<>> /\ Head(version) = "v"
       /\ LeadingDigits(Tail(version)) # <<>>
    THEN DecValue(LeadingDigits(Tail(version)))
    ELSE 0

\* lines 69-70: .filter(v => v.lts !== false).map(...)
RECURSIVE LtsMajors(_)
LtsMajors(versions) ==
    IF versions = <<>> THEN <<>>
    ELSE IF Head(versions).lts # <<>>
         THEN <<ParseMajor(Head(versions).version)>>
                  \o LtsMajors(Tail(versions))
         ELSE LtsMajors(Tail(versions))

\* line 71: .filter(v => v > 0 && !isPastEOL(v))
RECURSIVE FilterActive(_, _)
FilterActive(majors, t) ==
    IF majors = <<>> THEN <<>>
    ELSE IF Head(majors) > 0 /\ ~isPastEOL(Head(majors), t)
         THEN <<Head(majors)>> \o FilterActive(Tail(majors), t)
         ELSE FilterActive(Tail(majors), t)

Unique_keepAll(arr) == arr

\* line 72: .filter((v, i, arr) => arr.indexOf(v) === i)
Unique(arr) ==
    LET keep == {i \in DOMAIN arr : \A j \in 1..(i - 1) : arr[j] # arr[i]}
        F[n \in 0..Len(arr)] ==
            IF n = 0 THEN <<>>
            ELSE IF n \in keep THEN Append(F[n - 1], arr[n]) ELSE F[n - 1]
    IN  F[Len(arr)]

\* line 73: .sort((a, b) => b - a)
RECURSIVE SortDescending(_)
SortDescending(arr) ==
    IF arr = <<>> THEN <<>>
    ELSE LET rest == SortDescending(Tail(arr))
             k == Cardinality({i \in DOMAIN rest : rest[i] >= Head(arr)})
         IN  SubSeq(rest, 1, k) \o <<Head(arr)>> \o SubSeq(rest, k + 1, Len(rest))

\* arr.slice(0, n)
Slice(arr, n) == SubSeq(arr, 1, IF Len(arr) < n THEN Len(arr) ELSE n)

\* lines 65-91: the try block of getNodeLTSVersions once the response is
\* there and OK, at time t.  A body: [json |-> "unparsable" | "object" |
\* "array", versions |-> the elements of the array]; an element: [version,
\* lts], lts <<>> for false and <<codename>> otherwise, version undefined
\* when the element has none
NodeFromBody(body, t) ==
    IF body.json # "array" THEN Throw            \* versions.filter is no function
    ELSE IF \E i \in DOMAIN body.versions :
               /\ body.versions[i].lts # <<>>
               /\ body.versions[i].version = undefined
    THEN Throw                                   \* version.match of undefined
    ELSE
      LET ltsVersions ==
              SortDescending(Unique(FilterActive(LtsMajors(body.versions), t)))
          ciMatrix == Slice(ltsVersions, 2)
          latestLTS == ltsVersions[1]
          minimum == IF Len(ciMatrix) >= 2 THEN ciMatrix[2] ELSE latestLTS
      IN  IF Len(ltsVersions) = 0 THEN Throw
          ELSE Return([minimum |-> minimum,
                       engines |-> <<">=">> \o NatStr(minimum) \o <<".0.0">>,
                       ciMatrix |-> ciMatrix,
                       latestLTS |-> latestLTS])

getNodeLTSVersions_noCatch(ev, t) ==
    IF ev.end = "body" THEN NodeFromBody(ev.body, t) ELSE Throw

\* lines 56-98: what getNodeLTSVersions resolves with at time t, given how
\* its request ended
getNodeLTSVersions(ev, t) ==
    LET tried == IF ev.end = "body" THEN NodeFromBody(ev.body, t) ELSE Throw
    IN  IF tried.threw THEN Return(FALLBACK_NODE_CONFIG) ELSE tried

\* lines 58-61: the request for the index is issued
GetNodeLTSVersions ==
    /\ npc = "start"
    /\ npc' = "awaitIndex"
    /\ UNCHANGED <<now, nseen, nodeConfig>>
    /\ UNCHANGED <<warnVars, npmVars, actVars, genVars>>

\* lines 56-98: the request ends with ev, which resolves getNodeLTSVersions
IndexEnds(ev) ==
    LET got == getNodeLTSVersions(ev, now)
    IN  /\ nseen' = Append(nseen, ev)
        /\ npc' = IF got.threw THEN "threw" ELSE "done"
        /\ nodeConfig' = IF got.threw THEN <<>> ELSE <<got.value>>
        /\ UNCHANGED now
        /\ UNCHANGED <<warnVars, npmVars, actVars, genVars>>

\* line 63: the response arrives; a non-OK status is thrown and caught
IndexResponds(ok) ==
    /\ npc = "awaitIndex"
    /\ IF ok
       THEN /\ npc' = "awaitBody"
            /\ UNCHANGED <<now, nseen, nodeConfig>>
            /\ UNCHANGED <<warnVars, npmVars, actVars, genVars>>
       ELSE IndexEnds(Ended("index", "notok", "status", NoBody))

IndexStatus == IF npc = "awaitBody" THEN "ok" ELSE "none"

\* lines 58-61: fetch, or the read of the body, rejects
IndexNetworkError ==
    /\ npc \in {"awaitIndex", "awaitBody"}
    /\ IndexEnds(Ended("index", IndexStatus, "network", NoBody))

\* line 60: AbortSignal.timeout(5000) fires
IndexTimeout ==
    /\ npc \in {"awaitIndex", "awaitBody"}
    /\ IndexEnds(Ended("index", IndexStatus, "timeout", NoBody))

\* line 65: the body is read
IndexBody(body) ==
    /\ npc = "awaitBody"
    /\ IndexEnds(Ended("index", "ok", "body", body))

----------------------------------------------------------------------------
(* generatePackageJson and its parts.  An object is a record whose domain  *)
(* is the set of its keys; a path is the sequence of its pieces.           *)

SrcIndexJs   == <<"./", "src", "/", "index", ".js">>
DistIndexJs  == <<"./", "dist", "/", "index", ".js">>
DistIndexMjs == <<"./", "dist", "/", "index", ".mjs">>
DistIndexDts == <<"./", "dist", "/", "index", ".d", ".ts">>

\* exports['.'] is a string, or an object of conditions
Target(path) == [kind |-> "string", target |-> path]
Conditions(c) == [kind |-> "conditions", conds |-> c]

\* { ...a, ...b }, and a[k] = v
Merge(a, b) ==
    [k \in (DOMAIN a) \cup (DOMAIN b) |-> IF k \in DOMAIN b THEN b[k] ELSE a[k]]

Put(a, k, v) == [x \in (DOMAIN a) \cup {k} |-> IF x = k THEN v ELSE a[x]]

EmptyObject == <<>>

generateEntryPoints_swapped(cfg) ==
    IF cfg.language # "typescript"
    THEN Put(IF cfg.moduleType \in {"esm", "dual"}
             THEN [main |-> SrcIndexJs, module |-> SrcIndexJs]
             ELSE [main |-> SrcIndexJs],
             "exports", ("." :> Target(SrcIndexJs)))
    ELSE CASE cfg.moduleType = "esm" ->
                [main |-> DistIndexJs, types |-> DistIndexDts,
                 exports |-> ("." :> Conditions(
                     [types |-> DistIndexDts, import |-> DistIndexJs]))]
           [] cfg.moduleType = "commonjs" ->
                [main |-> DistIndexJs, types |-> DistIndexDts,
                 exports |-> ("." :> Conditions(
                     [types |-> DistIndexDts, require |-> DistIndexJs]))]
           [] cfg.moduleType = "dual" ->
                [main |-> DistIndexJs, module |-> DistIndexMjs,
                 types |-> DistIndexDts,
                 exports |-> ("." :> Conditions(
                     [types |-> DistIndexDts, import |-> DistIndexJs,
                      require |-> DistIndexMjs]))]

\* lines 187-248
generateEntryPoints(cfg) ==
    IF cfg.language # "typescript"
    THEN Put(IF cfg.moduleType \in {"esm", "dual"}
             THEN [main |-> SrcIndexJs, module |-> SrcIndexJs]
             ELSE [main |-> SrcIndexJs],
             "exports", ("." :> Target(SrcIndexJs)))
    ELSE CASE cfg.moduleType = "esm" ->
                [main |-> DistIndexJs, types |-> DistIndexDts,
                 exports |-> ("." :> Conditions(
                     [types |-> DistIndexDts, import |-> DistIndexJs]))]
           [] cfg.moduleType = "commonjs" ->
                [main |-> DistIndexJs, types |-> DistIndexDts,
                 exports |-> ("." :> Conditions(
                     [types |-> DistIndexDts, require |-> DistIndexJs]))]
           [] cfg.moduleType = "dual" ->
                [main |-> DistIndexJs, module |-> DistIndexMjs,
                 types |-> DistIndexDts,
                 exports |-> ("." :> Conditions(
                     [types |-> DistIndexDts, import |-> DistIndexMjs,
                      require |-> DistIndexJs]))]

generateScripts_exportsCheckAlways(cfg) ==
    LET ts == cfg.language = "typescript"
        ext == IF ts THEN "ts" ELSE "js"
        s1 == IF ts
              THEN [build |-> <<"tsup">>, typecheck |-> <<"tsc --noEmit">>]
              ELSE EmptyObject
        s2 == IF cfg.testRunner = "vitest"
              THEN Merge(s1, "test" :> <<"vitest run">>
                              @@ "test:watch" :> <<"vitest">>)
              ELSE IF cfg.testRunner = "jest"
              THEN Merge(s1, "test" :> <<"jest">>
                              @@ "test:watch" :> <<"jest --watch">>)
              ELSE s1
        s3 == IF cfg.useLinting
              THEN Merge(s2,
                     "lint" :> <<"eslint .", " --ext .", ext>>
                     @@ "lint:fix" :> <<"eslint .", " --ext .", ext, " --fix">>
                     @@ "format" :>
                          <<"prettier --write \"src/**/*.{ts,js,json,md}\"">>
                     @@ "format:check" :>
                          <<"prettier --check \"src/**/*.{ts,js,json,md}\"">>)
              ELSE s2
        s4 == Put(s3, "check:exports", <<"attw --pack">>)
    IN  IF ts THEN Put(s4, "prepublishOnly", <<"npm run build">>) ELSE s4

\* lines 253-291
generateScripts(cfg) ==
    LET ts == cfg.language = "typescript"
        ext == IF ts THEN "ts" ELSE "js"
        s1 == IF ts
              THEN [build |-> <<"tsup">>, typecheck |-> <<"tsc --noEmit">>]
              ELSE EmptyObject
        s2 == IF cfg.testRunner = "vitest"
              THEN Merge(s1, "test" :> <<"vitest run">>
                              @@ "test:watch" :> <<"vitest">>)
              ELSE IF cfg.testRunner = "jest"
              THEN Merge(s1, "test" :> <<"jest">>
                              @@ "test:watch" :> <<"jest --watch">>)
              ELSE s1
        s3 == IF cfg.useLinting
              THEN Merge(s2,
                     "lint" :> <<"eslint .", " --ext .", ext>>
                     @@ "lint:fix" :> <<"eslint .", " --ext .", ext, " --fix">>
                     @@ "format" :>
                          <<"prettier --write \"src/**/*.{ts,js,json,md}\"">>
                     @@ "format:check" :>
                          <<"prettier --check \"src/**/*.{ts,js,json,md}\"">>)
              ELSE s2
        s4 == IF ts THEN Put(s3, "check:exports", <<"attw --pack">>) ELSE s3
    IN  IF ts THEN Put(s4, "prepublishOnly", <<"npm run build">>) ELSE s4

\* lines 296-336; a version is a string of the kind the resolver returns
generateDevDependencies(cfg) ==
    LET ts == cfg.language = "typescript"
        d1 == IF ts
              THEN "typescript" :> Caret(Ver(5, 3, 3)) @@ "tsup" :> Caret(Ver(8, 0, 1))
                   @@ "@types/node" :> Caret(Ver(20, 11, 0))
                   @@ "@arethetypeswrong/cli" :> Caret(Ver(0, 15, 0))
              ELSE EmptyObject
        d2 == IF cfg.testRunner = "vitest"
              THEN Put(d1, "vitest", Caret(Ver(1, 2, 0)))
              ELSE IF cfg.testRunner = "jest"
              THEN Merge(Put(d1, "jest", Caret(Ver(29, 7, 0))),
                         IF ts THEN "ts-jest" :> Caret(Ver(29, 1, 1))
                                    @@ "@types/jest" :> Caret(Ver(29, 5, 11))
                         ELSE EmptyObject)
              ELSE d1
        d3 == IF cfg.useLinting
              THEN Merge(Merge(d2,
                         IF ts
                         THEN "@typescript-eslint/eslint-plugin" :> Caret(Ver(6, 19, 0))
                              @@ "@typescript-eslint/parser" :> Caret(Ver(6, 19, 0))
                         ELSE EmptyObject),
                         "eslint" :> Caret(Ver(8, 56, 0)) @@ "prettier" :> Caret(Ver(3, 2, 4))
                         @@ "eslint-config-prettier" :> Caret(Ver(9, 1, 0)))
              ELSE d2
    IN  IF cfg.useChangesets THEN Put(d3, "@changesets/cli", Caret(Ver(2, 27, 1))) ELSE d3

generatePackageJson_typeByLanguage(cfg) ==
    LET scripts == generateScripts(cfg)
    IN  Merge(Merge([name |-> cfg.packageName,
                     version |-> "0.1.0",
                     description |-> "A new npm package",
                     type |-> IF cfg.language = "javascript" THEN "commonjs"
                              ELSE "module"],
                    generateEntryPoints(cfg)),
              [files |-> IF cfg.language = "typescript" THEN <<"dist">>
                         ELSE <<"src">>,
               scripts |-> IF cfg.useChangesets
                           THEN Put(scripts, "release", <<"changeset publish">>)
                           ELSE scripts,
               keywords |-> <<>>,
               author |-> "",
               license |-> "MIT",
               devDependencies |-> generateDevDependencies(cfg)])

generatePackageJson_distOnly(cfg) ==
    LET scripts == generateScripts(cfg)
    IN  Merge(Merge([name |-> cfg.packageName,
                     version |-> "0.1.0",
                     description |-> "A new npm package",
                     type |-> IF cfg.moduleType = "commonjs" THEN "commonjs"
                              ELSE "module"],
                    generateEntryPoints(cfg)),
              [files |-> <<"dist">>,
               scripts |-> IF cfg.useChangesets
                           THEN Put(scripts, "release", <<"changeset publish">>)
                           ELSE scripts,
               keywords |-> <<>>,
               author |-> "",
               license |-> "MIT",
               devDependencies |-> generateDevDependencies(cfg)])

\* lines 154-177
generatePackageJson(cfg) ==
    LET scripts == generateScripts(cfg)
    IN  Merge(Merge([name |-> cfg.packageName,
                     version |-> "0.1.0",
                     description |-> "A new npm package",
                     type |-> IF cfg.moduleType = "commonjs" THEN "commonjs"
                              ELSE "module"],
                    generateEntryPoints(cfg)),
              [files |-> IF cfg.language = "typescript" THEN <<"dist">>
                         ELSE <<"src">>,
               scripts |-> IF cfg.useChangesets
                           THEN Put(scripts, "release", <<"changeset publish">>)
                           ELSE scripts,
               keywords |-> <<>>,
               author |-> "",
               license |-> "MIT",
               devDependencies |-> generateDevDependencies(cfg)])

----------------------------------------------------------------------------
(* generateCIWorkflow, generateCDWorkflow.  The workflow text is kept as    *)
(* its parts: the matrix list and the steps, each step with the keys it is *)
(* written with.                                                           *)

ActionVersion_allOrNothing(actionVersions, key) ==
    IF \A a \in DOMAIN SUPPORTED_ACTIONS :
          SUPPORTED_ACTIONS[a].key \in DOMAIN actionVersions
    THEN actionVersions[key].version
    ELSE <<"v", "4">>

\* lines 21-23: actionVersions.get(key)?.version || 'v4'
ActionVersion(actionVersions, key) ==
    IF /\ key \in DOMAIN actionVersions
       /\ "version" \in DOMAIN actionVersions[key]
       /\ actionVersions[key].version # undefined
       /\ actionVersions[key].version # <<>>
    THEN actionVersions[key].version
    ELSE <<"v", "4">>

TestCommand_swapped(cfg) ==
    IF cfg.setupCI THEN "npm test" ELSE "npm run test:coverage"

\* line 54
TestCommand(cfg) ==
    IF cfg.setupCI THEN "npm run test:coverage" ELSE "npm test"

\* lines 13-92
generateCIWorkflow(cfg, nodeCfg, actionVersions) ==
    LET nodeVersions == [i \in DOMAIN nodeCfg.ciMatrix |->
                            NumStr(nodeCfg.ciMatrix[i])]
        checkoutVersion == ActionVersion(actionVersions, "actions/checkout")
        setupNodeVersion == ActionVersion(actionVersions, "actions/setup-node")
        codecovVersion ==
            ActionVersion(actionVersions, "codecov/codecov-action")
        s0 == << [name |-> "Checkout code",
                  uses |-> <<"actions/checkout@">> \o checkoutVersion],
                 [name |-> "Setup Node.js ${{ matrix.node-version }}",
                  uses |-> <<"actions/setup-node@">> \o setupNodeVersion]
                 @@ "with" :>
                        ("node-version" :> "${{ matrix.node-version }}"),
                 [name |-> "Install dependencies", run |-> "npm install"] >>
        s1 == IF cfg.language = "typescript"
              THEN Append(s0, [name |-> "Type check",
                               run |-> "npm run typecheck"])
              ELSE s0
        s2 == IF cfg.useLinting
              THEN Append(s1, [name |-> "Lint", run |-> "npm run lint"])
              ELSE s1
        s3 == IF cfg.testRunner # "none"
              THEN Append(s2, [name |-> "Run tests", run |-> TestCommand(cfg)])
              ELSE s2
        s4 == Append(s3, [name |-> "Build", run |-> "npm run build"])
        s5 == IF cfg.testRunner # "none" /\ cfg.useCodecov
              THEN Append(s4,
                     [name |-> "Upload coverage to Codecov",
                      uses |-> <<"codecov/codecov-action@">> \o codecovVersion]
                     @@ "if" :> (<<"matrix.node-version == '">>
                                   \o NumStr(nodeCfg.latestLTS) \o <<"'">>)
                     @@ "continue-on-error" :> TRUE
                     @@ "with" :>
                            ("token" :> "${{ secrets.CODECOV_TOKEN }}"
                             @@ "fail_ci_if_error" :> "false"))
              ELSE s4
    IN  [name |-> "CI",
         branches |-> <<"main">>,
         job |-> "test",
         matrix |-> nodeVersions,
         steps |-> s5]

\* generateCIWorkflow is called and returns
CallGenerateCIWorkflow ==
    /\ ciIn # <<>>
    /\ ciOut = <<>>
    /\ ciOut' = <<generateCIWorkflow(ciIn.config, ciIn.nodeConfig,
                                     ciIn.actionVersions)>>
    /\ UNCHANGED <<config, pkg, ciIn, cdOut>>
    /\ UNCHANGED <<warnVars, npmVars, actVars, nodeVars>>

\* lines 98-141
generateCDWorkflow(nodeCfg, actionVersions) ==
    LET checkoutVersion == ActionVersion(actionVersions, "actions/checkout")
        setupNodeVersion == ActionVersion(actionVersions, "actions/setup-node")
    IN  [name |-> "Publish to npm",
         release |-> <<"created">>,
         job |-> "publish",
         steps |->
           << [name |-> "Checkout",
               uses |-> <<"actions/checkout@">> \o checkoutVersion],
              [name |-> "Setup Node.js",
               uses |-> <<"actions/setup-node@">> \o setupNodeVersion]
              @@ "with" :>
                     ("node-version" :>
                          (<<"'">> \o NumStr(nodeCfg.latestLTS) \o <<".x'">>)
                      @@ "registry-url" :> "'https://registry.npmjs.org'"
                      @@ "cache" :> "'npm'"),
              [name |-> "Install Dependencies", run |-> "npm ci"],
              [name |-> "Run Tests", run |-> "npm run test:all"],
              [name |-> "Publish to npm", run |-> "npm publish --access public"]
              @@ "env" :> ("NODE_AUTH_TOKEN" :> "${{ secrets.NPM_TOKEN }}") >>]

\* generateCDWorkflow is called and returns
CallGenerateCDWorkflow ==
    /\ ciIn # <<>>
    /\ cdOut = <<>>
    /\ cdOut' = <<generateCDWorkflow(ciIn.nodeConfig, ciIn.actionVersions)>>
    /\ UNCHANGED <<config, pkg, ciIn, ciOut>>
    /\ UNCHANGED <<warnVars, npmVars, actVars, nodeVars>>

----------------------------------------------------------------------------
(* The idle state of each part: a specification starts one part and leaves *)
(* the others idle.                                                        *)

IdleWarn == warnIn = <<>> /\ warnOut = <<>> /\ cmpIn = <<>> /\ cmpOut = <<>>

IdleNpm ==
    /\ packageNames = <<>> /\ pc = <<>> /\ result = <<>> /\ reqs = <<>>
    /\ seen = <<>> /\ versionMap = <<>> /\ mapWrites = <<>>

IdleActions == apc = <<>> /\ aresult = <<>> /\ aseen = <<>> /\ actionMap = <<>>

IdleNode == npc = "idle" /\ now = 0 /\ nseen = <<>> /\ nodeConfig = <<>>

IdleGen ==
    /\ config = <<>> /\ pkg = <<>>
    /\ ciIn = <<>> /\ ciOut = <<>> /\ cdOut = <<>>

----------------------------------------------------------------------------
(* What the registry may answer *)

PackageUniverse == {"left-pad", "vitest"}

\* the components of a version: small ones and a two-digit one
Comps == (0..MaxComp) \cup {10}

\* strings that are no x.y.z version
OddVersions ==
    { <<"a", "b", "c">>,                                  \* "abc"
      <<>>,                                               \* ""
      <<"1", ".", "0">>,                                  \* "1.0"
      <<"1", ".">>,                                       \* "1."
      <<"x", ".", "0", ".", "1">>,                        \* "x.0.1"
      Ver(3, 0, 0) \o <<"-", "r", "c", ".", "1">> }       \* "3.0.0-rc.1"

\* time entries of a '/latest' body: none, an age in hours around the
\* thresholds of 14 and 30 days, a clock ahead of the registry, no date
LatestTimes ==
    {<<>>} \cup {<<h>> : h \in {-1, 0, 127, 335, 336, 719, 720, 2400, NaN}}

Unparsable == [json |-> "unparsable", vkind |-> "missing", version |-> <<>>,
               time |-> <<>>]
JsonNull == [json |-> "null", vkind |-> "missing", version |-> <<>>,
             time |-> <<>>]

LatestBodies ==
    {Unparsable, JsonNull}
    \cup {[json |-> "object", vkind |-> k, version |-> <<>>, time |-> t] :
             k \in {"missing", "number"}, t \in {<<>>}}
    \cup {[json |-> "object", vkind |-> "string", version |-> v, time |-> t] :
             v \in {Ver(x, y, z) : x \in Comps, y \in Comps, z \in Comps}
                       \cup OddVersions,
             t \in LatestTimes}

\* the few bodies the concurrent calls of fetchLatestVersions are run with
LatestBodiesFew ==
    {Unparsable,
     [json |-> "object", vkind |-> "string", version |-> Ver(2, 0, 1),
      time |-> <<>>]}

\* version keys of a metadata body
MetaVersions ==
    { Ver(1, 9, 0), Ver(1, 10, 0), Ver(2, 0, 0),
      Ver(2, 0, 0) \o <<"-", "b", "e", "t", "a", ".", "1">>,
      <<"1", ".", "0">> }

\* time entries of a metadata body: none, just under 30 days, 30 days
MetaTimes == {<<>>, <<719>>, <<720>>}

Range(f) == {f[x] : x \in DOMAIN f}

\* Object.keys(data.versions): distinct keys, in the order of the body
KeyLists(n) ==
    {k \in UNION {[1..m -> MetaVersions] : m \in 0..n} :
        \A i, j \in DOMAIN k : i # j => k[i] # k[j]}

MetaUnparsable == [json |-> "unparsable", keys |-> <<>>, time |-> <<>>]
MetaNull == [json |-> "null", keys |-> <<>>, time |-> <<>>]

MetaBodiesOf(n) ==
    {MetaUnparsable, MetaNull}
    \cup UNION {{[json |-> "object", keys |-> k, time |-> t] :
                    t \in [Range(k) -> MetaTimes]} : k \in KeyLists(n)}

MetaBodies == MetaBodiesOf(MaxKeys)

MetaBodiesFew ==
    {MetaUnparsable,
     [json |-> "object", keys |-> <<Ver(1, 9, 0)>>,
      time |-> [k \in {Ver(1, 9, 0)} |-> <<720>>]]}

\* the arguments of fetchLatestVersions: lists of at most n names
NameLists(n) == UNION {[1..m -> PackageUniverse] : m \in 0..n}

NpmInit(lists) ==
    /\ packageNames \in lists
    /\ pc = [i \in Calls |-> "start"]
    /\ result = [i \in Calls |-> <<>>]
    /\ reqs = [i \in Calls |-> <<>>]
    /\ seen = [i \in Calls |-> <<>>]
    /\ versionMap = <<>>
    /\ mapWrites = <<>>

----------------------------------------------------------------------------
(* SpecResolve: one call of getLatestVersionWithFallback, against every    *)
(* answer of the registry                                                  *)

ResolveInit ==
    /\ NpmInit({<<p>> : p \in PackageUniverse})
    /\ IdleWarn /\ IdleActions /\ IdleNode /\ IdleGen

ResolveNext ==
    \/ FetchLatestVersions
    \/ \E i \in Calls, ok \in BOOLEAN : LatestResponds(i, ok)
    \/ \E i \in Calls : LatestNetworkError(i)
    \/ \E i \in Calls : LatestTimeout(i)
    \/ \E i \in Calls, b \in LatestBodies : LatestBody(i, b)
    \/ \E i \in Calls, ok \in BOOLEAN : MetaResponds(i, ok)
    \/ \E i \in Calls : MetaNetworkError(i)
    \/ \E i \in Calls : MetaTimeout(i)
    \/ \E i \in Calls, b \in MetaBodies : MetaBody(i, b)

SpecResolve == ResolveInit /\ [][ResolveNext]_vars

----------------------------------------------------------------------------
(* Spec: fetchLatestVersions over a list of names, the calls interleaved   *)

Init ==
    /\ NpmInit(NameLists(MaxPkgs))
    /\ IdleWarn /\ IdleActions /\ IdleNode /\ IdleGen

Next ==
    \/ FetchLatestVersions
    \/ \E i \in Calls, ok \in BOOLEAN : LatestResponds(i, ok)
    \/ \E i \in Calls : LatestTimeout(i)
    \/ \E i \in Calls, b \in LatestBodiesFew : LatestBody(i, b)
    \/ \E i \in Calls, ok \in BOOLEAN : MetaResponds(i, ok)
    \/ \E i \in Calls : MetaTimeout(i)
    \/ \E i \in Calls, b \in MetaBodiesFew : MetaBody(i, b)
    \/ BuildMap

Spec == Init /\ [][Next]_vars

----------------------------------------------------------------------------
(* Claims about getLatestVersionWithFallback, under SpecResolve *)

Done(i) == pc[i] = "done"

\* every request the call issued has ended
AllEnded(i) == Len(reqs[i]) > 0 /\ Len(seen[i]) = Len(reqs[i])

\* the request ended without a body: no connection, no answer in time, or a
\* non-OK status
Failed(ev) == ev.end \in {"network", "timeout", "status"}

IsCaretSemver(v) == Len(v) > 0 /\ Head(v) = "^" /\ IsStrictSemver(Tail(v))

(* C1: getLatestVersionWithFallback never throws: however the '/latest'
   request and the metadata request end (network error, non-OK status,
   timeout, unparsable or incomplete body, no stable version), the call
   resolves with a result whose version is a defined string. *)
C1_NeverThrows ==
    \A i \in Calls :
        /\ pc[i] # "threw"
        /\ AllEnded(i) =>
              /\ Done(i)
              /\ result[i] # <<>>
              /\ "version" \in DOMAIN result[i][1]
              /\ result[i][1].version # undefined
              /\ Len(result[i][1].version) > 0

\* both requests were answered OK, the first body did not parse and the
\* second lists no stable version: the call still resolved
C1_Witness ==
    \E i \in Calls :
        /\ Done(i) /\ Len(seen[i]) = 2
        /\ seen[i][1].end = "body" /\ seen[i][1].body.json = "unparsable"
        /\ seen[i][2].end = "body" /\ seen[i][2].body.json = "object"
        /\ Len(seen[i][2].body.keys) > 0
        /\ result[i][1].version = Latest

(* C2: when neither the '/latest' request nor the metadata request can be
   completed, the result is version "latest" with usedFallback = true and a
   warning containing "Could not fetch" and the package name. *)
C2_LatestWhenUnreachable ==
    \A i \in Calls :
        (Done(i) /\ Len(seen[i]) = 2 /\ Failed(seen[i][1]) /\ Failed(seen[i][2]))
        => LET r == result[i][1]
           IN  /\ r.version = Latest
               /\ "usedFallback" \in DOMAIN r /\ r.usedFallback = TRUE
               /\ r.warning # undefined
               /\ Includes(r.warning, CouldNotFetch)
               /\ Includes(r.warning, packageNames[i])

\* a package the registry does not know: both requests answered non-OK
C2_Witness ==
    \E i \in Calls :
        /\ Done(i) /\ Len(seen[i]) = 2
        /\ seen[i][1].end = "status" /\ seen[i][2].end = "status"
        /\ result[i][1].version = Latest

(* C5: a result carries usedFallback = true exactly when a fallback tier
   produced it: a result of the primary path has no usedFallback flag, and
   every result with usedFallback = true carries a defined message. *)
C5_FallbackFlag ==
    \A i \in Calls :
        Done(i) =>
            LET r == result[i][1]
                byFallback == Len(reqs[i]) = 2
                flagged == "usedFallback" \in DOMAIN r /\ r.usedFallback = TRUE
            IN  /\ byFallback <=> flagged
                /\ ~byFallback => "usedFallback" \notin DOMAIN r
                /\ flagged => ("warning" \in DOMAIN r /\ r.warning # undefined)

\* Fallback 1 answered with a stable version
C5_Witness ==
    \E i \in Calls :
        /\ Done(i) /\ Len(reqs[i]) = 2
        /\ result[i][1].usedFallback = TRUE
        /\ IsCaretSemver(result[i][1].version)

(* C6: every result has a version that is '^' followed by a strict x.y.z
   semver or the literal "latest"; and whenever the version is no caret
   semver, usedFallback is true. *)
C6_VersionShape ==
    \A i \in Calls :
        Done(i) =>
            LET r == result[i][1]
            IN  /\ IsCaretSemver(r.version) \/ r.version = Latest
                /\ ~IsCaretSemver(r.version) =>
                       ("usedFallback" \in DOMAIN r /\ r.usedFallback = TRUE)

----------------------------------------------------------------------------
(* Claims about fetchLatestVersions, under Spec *)

\* what a call resolves with, from the answers to its own requests alone
OwnResult(name, evs) ==
    IF Len(evs) = 1 THEN PrimaryTry(name, evs[1]).value
    ELSE getStableFallbackVersion(name, evs[2]).value

\* the last call listed for a name
LastCall(name) ==
    CHOOSE i \in Calls :
        /\ packageNames[i] = name
        /\ \A j \in Calls : packageNames[j] = name => j <= i

Names == {packageNames[i] : i \in Calls}

(* C9, as amended: fetchLatestVersions resolves with a map that has one
   entry per distinct name requested, holding the result of that name's own
   resolution (of its last listing when a name is listed more than once);
   every call's result depends on the answers to its own requests alone,
   under every interleaving, and the key of a name is set once per listing
   of the name. *)
C9_MapPerName ==
    /\ \A i \in Calls :
          Done(i) => result[i] = <<OwnResult(packageNames[i], seen[i])>>
    /\ versionMap # <<>> =>
          /\ DOMAIN versionMap[1] = Names
          /\ Cardinality(DOMAIN versionMap[1]) = Cardinality(Names)
          /\ \A n \in Names :
                /\ versionMap[1][n] =
                       OwnResult(n, seen[LastCall(n)])
                /\ mapWrites[n] =
                       Cardinality({i \in Calls : packageNames[i] = n})

\* two packages, the first fell back to "latest", the second resolved on
\* the primary path
C9_Witness ==
    /\ versionMap # <<>>
    /\ Len(packageNames) = 2 /\ packageNames[1] # packageNames[2]
    /\ versionMap[1][packageNames[1]].version = Latest
    /\ versionMap[1][packageNames[2]].version = Caret(Ver(2, 0, 1))
    /\ "usedFallback" \notin DOMAIN versionMap[1][packageNames[2]]

(* C9, as claimed: the size of the map equals the number of package names
   requested, and each result is written once under its own key. *)
C9_SizeIsLength ==
    versionMap # <<>> =>
        /\ Cardinality(DOMAIN versionMap[1]) = Len(packageNames)
        /\ \A n \in DOMAIN versionMap[1] : mapWrites[n] = 1

----------------------------------------------------------------------------
(* SpecManifest: one call of generatePackageJson *)

Configs ==
    [packageName : {"test-package"},
     language : {"typescript", "javascript"},
     moduleType : {"esm", "commonjs", "dual"},
     testRunner : {"vitest", "jest", "none"},
     useLinting : BOOLEAN,
     useChangesets : BOOLEAN]

ManifestInit ==
    /\ config \in Configs
    /\ pkg = <<>>
    /\ ciIn = <<>> /\ ciOut = <<>> /\ cdOut = <<>>
    /\ IdleWarn /\ IdleNpm /\ IdleActions /\ IdleNode

CallGeneratePackageJson ==
    /\ config # <<>>
    /\ pkg = <<>>
    /\ pkg' = <<generatePackageJson(config)>>
    /\ UNCHANGED <<config, ciIn, ciOut, cdOut>>
    /\ UNCHANGED <<warnVars, npmVars, actVars, nodeVars>>

ManifestNext == CallGeneratePackageJson

SpecManifest == ManifestInit /\ [][ManifestNext]_vars

\* the last piece of a path
Ext(path) == path[Len(path)]

Has(obj, k) == k \in DOMAIN obj

(* C3: generateEntryPoints is total over the 6 (language, moduleType) pairs
   and yields the decision table: javascript gives main './src/index.js',
   exports['.'] the plain string './src/index.js', no types, and module only
   for esm and dual; typescript esm gives main './dist/index.js', types
   './dist/index.d.ts', no module, and conditions exactly {types, import};
   typescript commonjs the same with exactly {types, require}; typescript
   dual gives module './dist/index.mjs' and exactly {types, import,
   require}. *)
C3_DecisionTable ==
    pkg # <<>> =>
        LET m == pkg[1]
            e == m.exports["."]
            js == config.language = "javascript"
            mt == config.moduleType
        IN  /\ Has(m, "main") /\ Has(m, "exports")
            /\ DOMAIN m.exports = {"."}
            /\ js =>
                 /\ m.main = SrcIndexJs
                 /\ e.kind = "string" /\ e.target = SrcIndexJs
                 /\ ~Has(m, "types")
                 /\ Has(m, "module") <=> mt \in {"esm", "dual"}
                 /\ Has(m, "module") => m.module = SrcIndexJs
            /\ ~js =>
                 /\ m.main = DistIndexJs
                 /\ Has(m, "types") /\ m.types = DistIndexDts
                 /\ e.kind = "conditions"
                 /\ e.conds.types = DistIndexDts
                 /\ mt = "esm" =>
                      /\ ~Has(m, "module")
                      /\ DOMAIN e.conds = {"types", "import"}
                      /\ e.conds.import = DistIndexJs
                 /\ mt = "commonjs" =>
                      /\ ~Has(m, "module")
                      /\ DOMAIN e.conds = {"types", "require"}
                      /\ e.conds.require = DistIndexJs
                 /\ mt = "dual" =>
                      /\ Has(m, "module") /\ m.module = DistIndexMjs
                      /\ DOMAIN e.conds = {"types", "import", "require"}
                      /\ e.conds.import = DistIndexMjs
                      /\ e.conds.require = DistIndexJs

\* the typescript dual manifest has been generated
C3_Witness ==
    /\ pkg # <<>>
    /\ config.language = "typescript" /\ config.moduleType = "dual"
    /\ DOMAIN pkg[1].exports["."].conds = {"types", "import", "require"}

\* exports['.'].import ends in .mjs and exports['.'].require in .js
DualExtensions(m) ==
    LET e == m.exports["."]
    IN  /\ e.kind = "conditions"
        /\ Has(e.conds, "import") /\ Ext(e.conds.import) = ".mjs"
        /\ Has(e.conds, "require") /\ Ext(e.conds.require) = ".js"

TypeField(m) ==
    /\ Has(m, "type")
    /\ config.moduleType \in {"esm", "dual"} => m.type = "module"
    /\ config.moduleType = "commonjs" => m.type = "commonjs"
    /\ m.type = "commonjs" => config.moduleType = "commonjs"

(* C4, as amended: for every configuration the manifest's type field is
   "module" when moduleType is esm or dual and "commonjs" only when
   moduleType is commonjs, whatever the language; and in a typescript dual
   manifest exports['.'].import ends in .mjs while exports['.'].require
   ends in .js.  (A javascript dual manifest exports one plain string and
   has neither condition.) *)
C4_TypeAndDualExtensions ==
    pkg # <<>> =>
        /\ TypeField(pkg[1])
        /\ (config.moduleType = "dual" /\ config.language = "typescript")
               => DualExtensions(pkg[1])
        /\ (config.moduleType = "dual" /\ config.language = "javascript")
               => pkg[1].exports["."].kind = "string"

\* the typescript dual manifest has been generated, of type "module"
C4_Witness ==
    /\ pkg # <<>>
    /\ config.language = "typescript" /\ config.moduleType = "dual"
    /\ pkg[1].type = "module"
    /\ Ext(pkg[1].exports["."].conds.import) = ".mjs"

(* C4, as claimed: in every dual manifest exports['.'].import ends in .mjs
   and exports['.'].require ends in .js. *)
C4_EveryDualManifest ==
    pkg # <<>> =>
        /\ TypeField(pkg[1])
        /\ config.moduleType = "dual" => DualExtensions(pkg[1])

----------------------------------------------------------------------------
(* SpecWarn: one call of generateWarning *)

\* ages in days: around both thresholds, a clock ahead of the registry, NaN
WarnAges == (-1..MaxDays) \cup {100, NaN}

WarnInit ==
    /\ \E p \in PackageUniverse, d \in WarnAges :
          \/ \E x \in Comps, y \in Comps, z \in Comps :
                warnIn = [pkg |-> p, version |-> Ver(x, y, z), daysOld |-> d,
                          triple |-> <<x, y, z>>]
          \/ \E v \in OddVersions :
                warnIn = [pkg |-> p, version |-> v, daysOld |-> d,
                          triple |-> <<>>]
    /\ warnOut = <<>>
    /\ cmpIn = <<>> /\ cmpOut = <<>>
    /\ IdleNpm /\ IdleActions /\ IdleNode /\ IdleGen

CallGenerateWarning ==
    /\ warnIn # <<>>
    /\ warnOut = <<>>
    /\ warnOut' = <<generateWarning(warnIn.pkg, warnIn.version, warnIn.daysOld)>>
    /\ UNCHANGED <<warnIn, cmpIn, cmpOut>>
    /\ UNCHANGED <<npmVars, actVars, nodeVars, genVars>>

WarnNext == CallGenerateWarning

SpecWarn == WarnInit /\ [][WarnNext]_vars

\* the message ends with the elements of tail
EndsWith(s, tail) ==
    Len(s) >= Len(tail) /\ SubSeq(s, Len(s) - Len(tail) + 1, Len(s)) = tail

(* C7: for every version major.minor.patch and every age, generateWarning
   returns the 'new major version' warning, suggesting a downgrade to
   major-1, iff minor = 0 and daysOld < 30; otherwise the 'early minor
   release' warning iff minor = 1 and daysOld < 14; otherwise nothing. *)
C7_WarningRule ==
    (warnOut # <<>> /\ warnIn.triple # <<>>) =>
        LET w     == warnOut[1]
            major == warnIn.triple[1]
            minor == warnIn.triple[2]
            d     == warnIn.daysOld
            young(n) == d # NaN /\ d < n
        IN  IF minor = 0 /\ young(30)
            THEN /\ w # undefined
                 /\ Includes(w, NewMajorLine)
                 /\ ~Includes(w, EarlyMinorLine)
                 /\ EndsWith(w, <<DowngradeLine, warnIn.pkg, "@">>
                                    \o NumStr(major - 1))
            ELSE IF minor = 1 /\ young(14)
            THEN /\ w # undefined
                 /\ Includes(w, EarlyMinorLine)
                 /\ ~Includes(w, NewMajorLine)
            ELSE w = undefined

\* 2.0.1 at 5 days has been answered with a downgrade to major 1
C7_Witness ==
    /\ warnOut # <<>>
    /\ warnIn.version = <<"2", ".", "0", ".", "1">>
    /\ warnIn.daysOld = 5
    /\ EndsWith(warnOut[1], <<DowngradeLine, warnIn.pkg, "@", "1">>)

----------------------------------------------------------------------------
(* What GitHub may answer *)

\* tag names: "v6.0.1", "4.2", "v10", "v0.9", "nightly", none
ReleaseTags ==
    { <<"v", "6", ".", "0", ".", "1">>,
      <<"4", ".", "2">>,
      <<"v", "1", "0">>,
      <<"v", "0", ".", "9">>,
      <<"n", "i", "g", "h", "t", "l", "y">>,
      undefined }

Releases ==
    [tag_name : ReleaseTags, prerelease : BOOLEAN, draft : BOOLEAN]

Release(tag, prerelease, draft) ==
    [tag_name |-> tag, prerelease |-> prerelease, draft |-> draft]

ReleasesUnparsable == [json |-> "unparsable", releases |-> <<>>]
ReleasesObject == [json |-> "object", releases |-> <<>>]
ReleasesArray(list) == [json |-> "array", releases |-> list]

ReleaseBodiesOf(n) ==
    {ReleasesUnparsable, ReleasesObject}
    \cup {ReleasesArray(l) : l \in UNION {[1..m -> Releases] : m \in 0..n}}

ReleaseBodies == ReleaseBodiesOf(MaxReleases)

\* the few bodies the concurrent calls of fetchLatestActionVersions are run
\* with
ReleaseBodiesFew ==
    { ReleasesUnparsable,
      ReleasesArray(<<>>),
      ReleasesArray(<<Release(<<"v", "1", "0">>, TRUE, FALSE),
                      Release(<<"v", "6", ".", "0", ".", "1">>, FALSE, FALSE)>>),
      ReleasesArray(<<Release(<<"n", "i", "g", "h", "t", "l", "y">>,
                              FALSE, FALSE)>>),
      ReleasesArray(<<Release(<<"4", ".", "2">>, FALSE, FALSE),
                      Release(<<"v", "1", "0">>, FALSE, FALSE)>>) }

\* the two bodies the calls are run with where termination is checked
ReleaseBodiesLive ==
    { ReleasesUnparsable,
      ReleasesArray(<<Release(<<"v", "6", ".", "0", ".", "1">>, FALSE, FALSE)>>) }

ActionsInit ==
    /\ apc = [i \in Actions |-> "start"]
    /\ aresult = [i \in Actions |-> <<>>]
    /\ aseen = [i \in Actions |-> <<>>]
    /\ actionMap = <<>>

----------------------------------------------------------------------------
(* SpecActions: fetchLatestActionVersions, the four calls interleaved *)

InitActions ==
    /\ ActionsInit
    /\ IdleWarn /\ IdleNpm /\ IdleNode /\ IdleGen

NextActions ==
    \/ FetchLatestActionVersions
    \/ \E i \in DOMAIN apc, ok \in BOOLEAN : ReleasesResponds(i, ok)
    \/ \E i \in DOMAIN apc : ReleasesNetworkError(i)
    \/ \E i \in DOMAIN apc : ReleasesTimeout(i)
    \/ \E i \in DOMAIN apc, b \in ReleaseBodiesFew : ReleasesBody(i, b)
    \/ BuildActionMap

SpecActions == InitActions /\ [][NextActions]_vars

----------------------------------------------------------------------------
(* SpecMajor: fetchLatestMajorVersion of actions/checkout against every    *)
(* answer of GitHub, while the other three requests get no answer          *)

NextMajor ==
    \/ FetchLatestActionVersions
    \/ \E ok \in BOOLEAN : ReleasesResponds(1, ok)
    \/ ReleasesNetworkError(1)
    \/ \E i \in DOMAIN apc : ReleasesTimeout(i)
    \/ \E b \in ReleaseBodies : ReleasesBody(1, b)
    \/ BuildActionMap

SpecMajor == InitActions /\ [][NextMajor]_vars

----------------------------------------------------------------------------
(* What nodejs.org may answer, and when *)

\* "v<x>.<y>.<z>"
NodeVer(x, y, z) == <<"v">> \o Ver(x, y, z)

\* an element of the index that carries an LTS codename, and one that does
\* not
Lts(version) == [version |-> version, lts |-> <<"codename">>]
NoLts(version) == [version |-> version, lts |-> <<>>]

NodeDistVersions ==
    { Lts(NodeVer(22, 11, 0)), Lts(NodeVer(22, 1, 0)), Lts(NodeVer(20, 9, 0)),
      Lts(NodeVer(18, 20, 0)), Lts(NodeVer(16, 1, 0)), Lts(NodeVer(28, 0, 0)),
      NoLts(NodeVer(23, 0, 0)), Lts(Ver(0, 10, 0)), Lts(undefined) }

IndexUnparsable == [json |-> "unparsable", versions |-> <<>>]
IndexObject == [json |-> "object", versions |-> <<>>]
IndexArray(list) == [json |-> "array", versions |-> list]

IndexBodiesOf(n) ==
    {IndexUnparsable, IndexObject}
    \cup {IndexArray(l) :
             l \in UNION {[1..m -> NodeDistVersions] : m \in 0..n}}

IndexBodies == IndexBodiesOf(MaxEntries)

IndexBodiesFew ==
    { IndexUnparsable,
      IndexArray(<<NoLts(NodeVer(23, 0, 0)), Lts(NodeVer(22, 11, 0)),
                   Lts(NodeVer(20, 9, 0)), Lts(NodeVer(18, 20, 0))>>) }

\* Date.now(): the start of 2023, the EOL instants of 16..22 and the hour
\* after each, and an hour past the last entry of the table
NowTimes ==
    {0, EOL_DATES[26] + 1}
    \cup UNION {{EOL_DATES[m], EOL_DATES[m] + 1} : m \in {16, 18, 20, 22}}

NodeInit ==
    /\ npc = "start"
    /\ now \in NowTimes
    /\ nseen = <<>>
    /\ nodeConfig = <<>>

----------------------------------------------------------------------------
(* SpecNode: one call of getNodeLTSVersions *)

InitNode ==
    /\ NodeInit
    /\ IdleWarn /\ IdleNpm /\ IdleActions /\ IdleGen

NextNode ==
    \/ GetNodeLTSVersions
    \/ \E ok \in BOOLEAN : IndexResponds(ok)
    \/ IndexNetworkError
    \/ IndexTimeout
    \/ \E b \in IndexBodies : IndexBody(b)

SpecNode == InitNode /\ [][NextNode]_vars

----------------------------------------------------------------------------
(* SpecLive: a call of one of the three resolvers.  Every request carries  *)
(* AbortSignal.timeout(5000), so a request that is still pending is ended  *)
(* by its timer; the event loop runs every continuation that is ready.     *)

InitLive ==
    \/ /\ NpmInit({<<p>> : p \in PackageUniverse})
       /\ IdleWarn /\ IdleActions /\ IdleNode /\ IdleGen
    \/ /\ ActionsInit
       /\ IdleWarn /\ IdleNpm /\ IdleNode /\ IdleGen
    \/ /\ NodeInit
       /\ IdleWarn /\ IdleNpm /\ IdleActions /\ IdleGen

NextLive ==
    \/ FetchLatestVersions
    \/ \E i \in Calls, ok \in BOOLEAN : LatestResponds(i, ok)
    \/ \E i \in Calls : LatestNetworkError(i)
    \/ \E i \in Calls : LatestTimeout(i)
    \/ \E i \in Calls, b \in LatestBodiesFew : LatestBody(i, b)
    \/ \E i \in Calls, ok \in BOOLEAN : MetaResponds(i, ok)
    \/ \E i \in Calls : MetaNetworkError(i)
    \/ \E i \in Calls : MetaTimeout(i)
    \/ \E i \in Calls, b \in MetaBodiesFew : MetaBody(i, b)
    \/ FetchLatestActionVersions
    \/ \E i \in DOMAIN apc, ok \in BOOLEAN : ReleasesResponds(i, ok)
    \/ \E i \in DOMAIN apc : ReleasesTimeout(i)
    \/ \E i \in DOMAIN apc, b \in ReleaseBodiesLive : ReleasesBody(i, b)
    \/ BuildActionMap
    \/ GetNodeLTSVersions
    \/ \E ok \in BOOLEAN : IndexResponds(ok)
    \/ IndexNetworkError
    \/ IndexTimeout
    \/ \E b \in IndexBodiesFew : IndexBody(b)

FairLive ==
    /\ WF_vars(FetchLatestVersions)
    /\ WF_vars(1 \in Calls /\ LatestTimeout(1))
    /\ WF_vars(1 \in Calls /\ MetaTimeout(1))
    /\ WF_vars(FetchLatestActionVersions)
    /\ \A i \in Actions : WF_vars(i \in DOMAIN apc /\ ReleasesTimeout(i))
    /\ WF_vars(BuildActionMap)
    /\ WF_vars(GetNodeLTSVersions)
    /\ WF_vars(IndexTimeout)

SpecLive == InitLive /\ [][NextLive]_vars /\ FairLive

----------------------------------------------------------------------------
(* Claims about fetchLatestActionVersions, under SpecActions *)

\* v<N>, N a positive integer
IsMajorTag(v) ==
    /\ Len(v) >= 2 /\ Head(v) = "v"
    /\ AllDigits(Tail(v)) /\ DecValue(Tail(v)) > 0

KeyOf(i) == SUPPORTED_ACTIONS[i].key

\* what the call for action i resolves with, from the answer to its own
\* request alone
OwnMajor(i) ==
    fetchLatestMajorVersion(SUPPORTED_ACTIONS[i].owner,
                            SUPPORTED_ACTIONS[i].repo, aseen[i][1]).value

(* C10: whichever of the four releases requests fail (network error,
   timeout, non-OK status), no call of fetchLatestMajorVersion throws and the
   map fetchLatestActionVersions resolves with has an entry for every key of
   SUPPORTED_ACTIONS; the entry of a failed action is the fixed default tag,
   of the form v<N>, with usedFallback = true and a defined warning, and the
   entry of every action is what its own request alone determines. *)
C10_EntryForEveryAction ==
    /\ \A i \in DOMAIN apc :
          /\ apc[i] # "threw"
          /\ aseen[i] # <<>> => (apc[i] = "done" /\ aresult[i] # <<>>)
          /\ (aseen[i] # <<>> /\ Failed(aseen[i][1])) =>
                LET r == aresult[i][1]
                IN  /\ r.version = DefaultTag /\ IsMajorTag(r.version)
                    /\ "usedFallback" \in DOMAIN r /\ r.usedFallback = TRUE
                    /\ "warning" \in DOMAIN r
                    /\ r.warning # undefined /\ Len(r.warning) > 0
    /\ actionMap # <<>> =>
          /\ DOMAIN actionMap[1] = {KeyOf(i) : i \in Actions}
          /\ Cardinality(DOMAIN actionMap[1]) = Len(SUPPORTED_ACTIONS)
          /\ \A i \in Actions : actionMap[1][KeyOf(i)] = OwnMajor(i)

\* the map is there; the requests of three actions failed, each in its own
\* way, and actions/setup-node resolved to v6 without a fallback flag
C10_Witness ==
    /\ actionMap # <<>>
    /\ aseen[1][1].end = "timeout"
    /\ aseen[3][1].end = "status"
    /\ aseen[4][1].end = "network"
    /\ aseen[2][1].end = "body"
    /\ actionMap[1]["actions/setup-node"] = [version |-> <<"v", "6">>]
    /\ actionMap[1]["actions/checkout"].usedFallback = TRUE

----------------------------------------------------------------------------
(* Claims about termination, under SpecLive *)

\* a request ended by its timer is handled as a failed request: the next
\* tier, or the fallback result, follows
TimeoutIsFailure ==
    /\ \A i \in Calls :
          /\ (Len(seen[i]) >= 1 /\ seen[i][1].end = "timeout") =>
                (Len(reqs[i]) = 2 /\ reqs[i][2] = "meta")
          /\ (Len(seen[i]) = 2 /\ seen[i][2].end = "timeout") =>
                (Done(i) /\ result[i] = <<LastResort(packageNames[i])>>)
    /\ \A i \in DOMAIN aseen :
          (aseen[i] # <<>> /\ aseen[i][1].end = "timeout") =>
              aresult[i] = <<DefaultResult(SUPPORTED_ACTIONS[i].owner,
                                           SUPPORTED_ACTIONS[i].repo)>>
    /\ (nseen # <<>> /\ nseen[1].end = "timeout") =>
          nodeConfig = <<FALLBACK_NODE_CONFIG>>

\* the resolver that was called has returned its result
Returned ==
    /\ \A i \in Calls : Done(i) /\ result[i] # <<>>
    /\ apc # <<>> => actionMap # <<>>
    /\ npc # "idle" => nodeConfig # <<>>

(* C8: every request is bounded by its timeout, and a timeout is handled
   like a failed request; so a call of getLatestVersionWithFallback, of
   fetchLatestActionVersions and of getNodeLTSVersions eventually returns a
   result, also when no request is ever answered. *)
C8_EveryCallReturns == []TimeoutIsFailure /\ <>Returned

\* fetchLatestActionVersions returned although none of its four requests
\* was answered: each was ended by its timer
C8_Witness ==
    /\ actionMap # <<>>
    /\ \A i \in Actions :
          /\ aseen[i][1].end = "timeout" /\ aseen[i][1].status = "none"
          /\ actionMap[1][KeyOf(i)].version = DefaultTag

----------------------------------------------------------------------------
(* Claims about getNodeLTSVersions, under SpecNode *)

\* the LTS majors of an index body that are active at time t
ActiveLtsMajors(body, t) ==
    {m \in {ParseMajor(body.versions[i].version) :
               i \in {j \in DOMAIN body.versions : body.versions[j].lts # <<>>}} :
        m > 0 /\ ~isPastEOL(m, t)}

\* the body is an array whose elements all carry a version string
WellFormed(body) ==
    /\ body.json = "array"
    /\ \A i \in DOMAIN body.versions : body.versions[i].version # undefined

\* the request gave no active LTS major: it failed, its body is no index, or
\* the index lists no active LTS major
NoLiveData(ev, t) ==
    \/ Failed(ev)
    \/ ev.end = "body" /\ ~WellFormed(ev.body)
    \/ ev.end = "body" /\ WellFormed(ev.body)
       /\ ActiveLtsMajors(ev.body, t) = {}

Engines(minimum) == <<">=">> \o NatStr(minimum) \o <<".0.0">>

(* C11: getNodeLTSVersions never throws; when the request fails (network
   error, non-OK status, timeout) or the index lists no active LTS major, it
   resolves with exactly the static fallback config; and a config that is not
   the fallback has every field from the live index: all its majors are
   active LTS majors of the body and engines is built from its minimum. *)
C11_FallbackWhole ==
    /\ npc # "threw"
    /\ nseen # <<>> => (npc = "done" /\ nodeConfig # <<>>)
    /\ (nseen # <<>> /\ NoLiveData(nseen[1], now)) =>
          nodeConfig = <<[minimum |-> 20,
                          engines |-> <<">=", "2", "0", ".0.0">>,
                          ciMatrix |-> <<20, 22>>,
                          latestLTS |-> 22]>>
    /\ (nodeConfig # <<>> /\ nodeConfig[1] # FALLBACK_NODE_CONFIG) =>
          LET c == nodeConfig[1]
              live == ActiveLtsMajors(nseen[1].body, now)
          IN  /\ nseen[1].end = "body"
              /\ \A k \in DOMAIN c.ciMatrix : c.ciMatrix[k] \in live
              /\ c.latestLTS \in live /\ c.minimum \in live
              /\ c.engines = Engines(c.minimum)

\* the index was read, it lists LTS lines, and each of them is past its EOL
\* date: the fallback config is returned
C11_Witness ==
    /\ nodeConfig = <<FALLBACK_NODE_CONFIG>>
    /\ nseen[1].end = "body" /\ WellFormed(nseen[1].body)
    /\ \E i \in DOMAIN nseen[1].body.versions :
          nseen[1].body.versions[i].lts # <<>>
    /\ ActiveLtsMajors(nseen[1].body, now) = {}

Max(S) == CHOOSE m \in S : \A n \in S : n <= m

(* C12: when the index is read and lists at least one active LTS major,
   ciMatrix is the two highest distinct active LTS majors, highest first (or
   the single one), latestLTS the highest, minimum the second highest if
   there are two and else latestLTS, and engines '>=' + minimum + '.0.0'. *)
C12_TopTwoActive ==
    (nodeConfig # <<>> /\ nseen[1].end = "body" /\ WellFormed(nseen[1].body)
     /\ ActiveLtsMajors(nseen[1].body, now) # {}) =>
        LET c == nodeConfig[1]
            live == ActiveLtsMajors(nseen[1].body, now)
            first == Max(live)
            others == live \ {first}
        IN  /\ c.latestLTS = first
            /\ c.ciMatrix = IF others = {} THEN <<first>>
                            ELSE <<first, Max(others)>>
            /\ c.minimum = IF others = {} THEN first ELSE Max(others)
            /\ c.engines = <<">=">> \o NatStr(c.minimum) \o <<".0.0">>

\* two releases of the 22 line and one of the 20 line, all active: the
\* matrix is [22, 20] and the minimum 20
C12_Witness ==
    /\ nodeConfig # <<>> /\ nseen[1].end = "body"
    /\ Len(nseen[1].body.versions) = 3
    /\ Cardinality({i \in 1..3 :
                       ParseMajor(nseen[1].body.versions[i].version) = 22
                       /\ nseen[1].body.versions[i].lts # <<>>}) = 2
    /\ nodeConfig[1].ciMatrix = <<22, 20>>
    /\ nodeConfig[1].minimum = 20
    /\ nodeConfig[1].engines = <<">=", "2", "0", ".0.0">>

(* C13: the ciMatrix of a returned config holds no major that is past its
   EOL date of the table at the time of the call, and an active LTS major
   that the table does not list is kept. *)
C13_NoEolInMatrix ==
    nodeConfig # <<>> =>
        /\ \A k \in DOMAIN nodeConfig[1].ciMatrix :
              ~isPastEOL(nodeConfig[1].ciMatrix[k], now)
        /\ (nseen[1].end = "body" /\ WellFormed(nseen[1].body)
            /\ 28 \in ActiveLtsMajors(nseen[1].body, now)) =>
              nodeConfig[1].latestLTS = 28

(* C14: the ciMatrix of every returned config, live or fallback, has at
   most 2 entries, in descending order, the first of them latestLTS. *)
C14_MatrixShape ==
    nodeConfig # <<>> =>
        LET c == nodeConfig[1]
        IN  /\ Len(c.ciMatrix) <= 2
            /\ \A j, k \in DOMAIN c.ciMatrix : j < k => c.ciMatrix[j] > c.ciMatrix[k]
            /\ Len(c.ciMatrix) >= 1 /\ c.ciMatrix[1] = c.latestLTS

----------------------------------------------------------------------------
(* Claims about the files, scripts and devDependencies of the manifest,    *)
(* under SpecManifest                                                      *)

\* the paths a manifest references: main, module, types and the targets of
\* the exports map
Referenced(m) ==
    {m[k] : k \in {"main", "module", "types"} \cap DOMAIN m}
    \cup UNION {IF m.exports[e].kind = "string"
                THEN {m.exports[e].target}
                ELSE {m.exports[e].conds[c] : c \in DOMAIN m.exports[e].conds} :
                   e \in DOMAIN m.exports}

\* path './<entry>/...' lies under the files entry
Under(path, entry) ==
    Len(path) > 3 /\ path[1] = "./" /\ path[2] = entry /\ path[3] = "/"

(* C15: for every configuration, every path in main, module, types and the
   exports map of the manifest lies under some entry of files, and every
   entry of files covers at least one of those paths. *)
C15_FilesCoverReferences ==
    pkg # <<>> =>
        LET m == pkg[1]
        IN  /\ Referenced(m) # {}
            /\ \A p \in Referenced(m) :
                  \E k \in DOMAIN m.files : Under(p, m.files[k])
            /\ \A k \in DOMAIN m.files :
                  \E p \in Referenced(m) : Under(p, m.files[k])

\* a javascript manifest, which references './src/index.js' only and ships
\* 'src'
C15_Witness ==
    /\ pkg # <<>>
    /\ config.language = "javascript" /\ config.moduleType = "dual"
    /\ Referenced(pkg[1]) = {SrcIndexJs}
    /\ pkg[1].files = <<"src">>

(* C16: files is ['dist', 'index.js', 'index.d.ts'] for a typescript esm
   manifest, that list with 'index.mjs' appended for typescript dual, and
   exactly ['src'] for a javascript manifest. *)
C16_FilesList ==
    pkg # <<>> =>
        /\ (config.language = "typescript" /\ config.moduleType = "esm") =>
              pkg[1].files = <<"dist", "index.js", "index.d.ts">>
        /\ (config.language = "typescript" /\ config.moduleType = "dual") =>
              pkg[1].files = <<"dist", "index.js", "index.d.ts", "index.mjs">>
        /\ config.language = "javascript" => pkg[1].files = <<"src">>

\* the scripts of the group are all there, or none of them is
AllOrNone(scripts, group, present) ==
    IF present THEN group \subseteq DOMAIN scripts
    ELSE group \cap DOMAIN scripts = {}

(* C17: build, typecheck, prepublishOnly and check:exports are present iff
   language is typescript; test and test:watch are present iff testRunner is
   not none, with 'vitest run' / 'vitest' for vitest and 'jest' /
   'jest --watch' for jest; whatever the other flags are. *)
C17_ScriptGroups ==
    pkg # <<>> =>
        LET s == pkg[1].scripts
        IN  /\ AllOrNone(s, {"build", "typecheck", "prepublishOnly",
                             "check:exports"},
                         config.language = "typescript")
            /\ AllOrNone(s, {"test", "test:watch"}, config.testRunner # "none")
            /\ config.testRunner = "vitest" =>
                  (s["test"] = <<"vitest run">> /\ s["test:watch"] = <<"vitest">>)
            /\ config.testRunner = "jest" =>
                  (s["test"] = <<"jest">> /\ s["test:watch"] = <<"jest --watch">>)

\* a javascript project tested with jest: the test scripts without the build
\* scripts
C17_Witness ==
    /\ pkg # <<>>
    /\ config.language = "javascript" /\ config.testRunner = "jest"
    /\ config.useLinting /\ config.useChangesets
    /\ "test:watch" \in DOMAIN pkg[1].scripts
    /\ "check:exports" \notin DOMAIN pkg[1].scripts

(* C18: lint, lint:fix, format and format:check are present iff useLinting;
   for both languages lint is exactly 'eslint .' and lint:fix exactly
   'eslint . --fix', with no file-extension flag. *)
C18_LintScripts ==
    pkg # <<>> =>
        LET s == pkg[1].scripts
        IN  /\ AllOrNone(s, {"lint", "lint:fix", "format", "format:check"},
                         config.useLinting)
            /\ config.useLinting =>
                  /\ s["lint"] = <<"eslint .">>
                  /\ s["lint:fix"] = <<"eslint .", " --fix">>
                  /\ ~Includes(s["lint"], " --ext .")
                  /\ ~Includes(s["lint:fix"], " --ext .")

----------------------------------------------------------------------------
(* SpecBuild: the version of vitest is resolved, then the manifest is       *)
(* generated                                                               *)

InitBuild ==
    /\ NpmInit({<<"vitest">>})
    /\ config \in Configs
    /\ pkg = <<>>
    /\ ciIn = <<>> /\ ciOut = <<>> /\ cdOut = <<>>
    /\ IdleWarn /\ IdleActions /\ IdleNode

NextBuild ==
    \/ FetchLatestVersions
    \/ \E i \in Calls, ok \in BOOLEAN : LatestResponds(i, ok)
    \/ \E i \in Calls : LatestTimeout(i)
    \/ \E i \in Calls, b \in LatestBodiesFew : LatestBody(i, b)
    \/ \E i \in Calls, ok \in BOOLEAN : MetaResponds(i, ok)
    \/ \E i \in Calls : MetaTimeout(i)
    \/ \E i \in Calls, b \in MetaBodiesFew : MetaBody(i, b)
    \/ BuildMap
    \/ versionMap # <<>> /\ CallGeneratePackageJson

SpecBuild == InitBuild /\ [][NextBuild]_vars

(* C19: every devDependencies entry of the manifest whose package the
   version resolver was asked about has as its version exactly the string
   the resolver returned for that name (a caret version or "latest"). *)
C19_VersionsFromResolver ==
    (pkg # <<>> /\ versionMap # <<>>) =>
        \A d \in (DOMAIN pkg[1].devDependencies) \cap (DOMAIN versionMap[1]) :
            pkg[1].devDependencies[d] = versionMap[1][d].version

----------------------------------------------------------------------------
(* SpecCI: one call of generateCIWorkflow and one of generateCDWorkflow, *)
(* on the same node config and action versions                          *)

\* the configurations: those of generatePackageJson with the two CI flags
CIConfigs ==
    [packageName : {"test-package"},
     language : {"typescript", "javascript"},
     moduleType : {"esm", "commonjs", "dual"},
     testRunner : {"vitest", "jest", "none"},
     useLinting : BOOLEAN,
     useChangesets : BOOLEAN,
     setupCI : BOOLEAN,
     useCodecov : BOOLEAN]

\* the configs that getNodeLTSVersions returns: for every way its request
\* ends on a failure, and for every body, at every time
NodeConfigs ==
    {getNodeLTSVersions(Ended("index", "error", "network", NoBody), 0).value}
    \cup {getNodeLTSVersions(Ended("index", "ok", "body", b), t).value :
              b \in IndexBodies, t \in NowTimes}

\* action-version maps: the empty Map, a Map of resolved versions, the Map
\* of a run without network, a Map that lacks the last two keys, and the
\* Maps that lack one key
ActionMapsFew ==
    LET resolved == [i \in Actions |->
                        <<SUPPORTED_ACTIONS[i].key, [version |-> MajorTag(4 + i)]>>]
        defaults == [i \in Actions |->
                        <<SUPPORTED_ACTIONS[i].key,
                          DefaultResult(SUPPORTED_ACTIONS[i].owner,
                                        SUPPORTED_ACTIONS[i].repo)>>]
        without(i) == [j \in 1..(Len(resolved) - 1) |->
                          resolved[IF j < i THEN j ELSE j + 1]]
    IN  {MapOf(<<>>), MapOf(resolved), MapOf(defaults),
         MapOf(SubSeq(resolved, 1, 2))}
        \cup {MapOf(without(i)) : i \in Actions}

InitCI ==
    /\ ciIn \in [config : CIConfigs, nodeConfig : NodeConfigs,
                 actionVersions : ActionMapsFew]
    /\ ciOut = <<>> /\ cdOut = <<>>
    /\ config = <<>> /\ pkg = <<>>
    /\ IdleWarn /\ IdleNpm /\ IdleActions /\ IdleNode

NextCI ==
    \/ CallGenerateCIWorkflow
    \/ CallGenerateCDWorkflow

SpecCI == InitCI /\ [][NextCI]_vars

\* the workflow has a step that runs the command
Runs(workflow, command) ==
    \E i \in DOMAIN workflow.steps :
        /\ "run" \in DOMAIN workflow.steps[i]
        /\ workflow.steps[i].run = command

(* C20: the CI workflow has the 'npm run typecheck' step iff language is
   typescript, the 'npm run lint' step iff useLinting, and a test step iff
   testRunner is not none; the test step runs 'npm run test:coverage' iff
   setupCI is set and 'npm test' otherwise; whatever the other flags are. *)
C20_StepsFollowConfig ==
    ciOut # <<>> =>
        LET w == ciOut[1]
            c == ciIn.config
            tests == {i \in DOMAIN w.steps : w.steps[i].name = "Run tests"}
        IN  /\ Runs(w, "npm run typecheck") <=> c.language = "typescript"
            /\ Runs(w, "npm run lint") <=> c.useLinting
            /\ tests # {} <=> c.testRunner # "none"
            /\ Cardinality(tests) <= 1
            /\ Runs(w, "npm run test:coverage") <=>
                  (c.testRunner # "none" /\ c.setupCI)
            /\ Runs(w, "npm test") <=> (c.testRunner # "none" /\ ~c.setupCI)
            /\ \A i \in tests :
                  w.steps[i].run = IF c.setupCI THEN "npm run test:coverage"
                                   ELSE "npm test"

\* a javascript project tested with jest, without linting and without
\* setupCI: the plain test command and no typecheck step
C20_Witness ==
    /\ ciOut # <<>>
    /\ ciIn.config.language = "javascript" /\ ~ciIn.config.useLinting
    /\ ciIn.config.testRunner = "jest" /\ ~ciIn.config.setupCI
    /\ Runs(ciOut[1], "npm test")
    /\ ~Runs(ciOut[1], "npm run typecheck")
    /\ Len(ciOut[1].steps) = 5

\* the steps of the workflow that upload to Codecov
CodecovSteps(workflow) ==
    {i \in DOMAIN workflow.steps :
        workflow.steps[i].name = "Upload coverage to Codecov"}

\* the entries of the matrix for which the step's 'if' expression
\* matrix.node-version == '<n>' is true
GateMatches(workflow, step) ==
    {i \in DOMAIN workflow.matrix :
        step["if"] = <<"matrix.node-version == '">> \o workflow.matrix[i]
                        \o <<"'">>}

(* C21: the CI workflow has the Codecov upload step iff testRunner is not
   none and useCodecov is set; the step has continue-on-error: true and the
   gate matrix.node-version == '<latestLTS>', and for every config that
   getNodeLTSVersions returns the gate is true of exactly one entry of the
   matrix. *)
C21_CodecovOnce ==
    ciOut # <<>> =>
        LET w == ciOut[1]
            c == ciIn.config
        IN  /\ CodecovSteps(w) # {} <=> (c.testRunner # "none" /\ c.useCodecov)
            /\ Cardinality(CodecovSteps(w)) <= 1
            /\ \A i \in CodecovSteps(w) :
                  /\ DOMAIN w.steps[i] =
                        {"name", "if", "uses", "continue-on-error", "with"}
                  /\ w.steps[i]["continue-on-error"] = TRUE
                  /\ w.steps[i]["if"] =
                        <<"matrix.node-version == '">>
                            \o NumStr(ciIn.nodeConfig.latestLTS) \o <<"'">>
                  /\ Cardinality(GateMatches(w, w.steps[i])) = 1

\* the upload step generated with the fallback node config: its gate is
\* true of the second entry of the matrix [20, 22] and of no other
C21_Witness ==
    /\ ciOut # <<>>
    /\ ciIn.config.useCodecov /\ ciIn.config.testRunner = "vitest"
    /\ ciIn.nodeConfig = FALLBACK_NODE_CONFIG
    /\ \E i \in CodecovSteps(ciOut[1]) :
          GateMatches(ciOut[1], ciOut[1].steps[i]) = {2}

\* the steps of a workflow that reference an action
UsesSteps(workflow) ==
    {i \in DOMAIN workflow.steps : "uses" \in DOMAIN workflow.steps[i]}

\* every action reference of the workflow names a supported action, at the
\* version the Map holds under that action's own key, and at the default
\* tag v4 when the Map holds nothing under that key
OwnVersions(workflow, actionVersions) ==
    \A i \in UsesSteps(workflow) :
        LET uses == workflow.steps[i].uses
            keys == {SUPPORTED_ACTIONS[a].key : a \in Actions}
        IN  \E k \in keys :
               /\ Head(uses) = k \o "@"
               /\ Tail(uses) = IF k \in DOMAIN actionVersions
                               THEN actionVersions[k].version
                               ELSE <<"v", "4">>

(* C22: generateCIWorkflow and generateCDWorkflow reference each action at
   the version the action-version map holds under that action's key, and at
   the fixed default tag only when the map holds no version under that key:
   the tag of one action does not depend on the entries of the other keys. *)
C22_PerActionFallback ==
    /\ ciOut # <<>> => OwnVersions(ciOut[1], ciIn.actionVersions)
    /\ cdOut # <<>> => OwnVersions(cdOut[1], ciIn.actionVersions)

\* both workflows generated from a Map that lacks actions/setup-node only:
\* setup-node is referenced at v4, checkout and codecov at their resolved
\* versions
C22_Witness ==
    /\ ciOut # <<>> /\ cdOut # <<>>
    /\ ciIn.config.useCodecov /\ ciIn.config.testRunner = "vitest"
    /\ DOMAIN ciIn.actionVersions =
          {"actions/checkout", "codecov/codecov-action",
           "dependabot/fetch-metadata"}
    /\ ciOut[1].steps[1].uses = <<"actions/checkout@", "v", "5">>
    /\ ciOut[1].steps[2].uses = <<"actions/setup-node@", "v", "4">>
    /\ \E i \in CodecovSteps(ciOut[1]) :
          ciOut[1].steps[i].uses = <<"codecov/codecov-action@", "v", "7">>
    /\ cdOut[1].steps[1].uses = <<"actions/checkout@", "v", "5">>
    /\ cdOut[1].steps[2].uses = <<"actions/setup-node@", "v", "4">>

----------------------------------------------------------------------------
(* The fallback tiers of getLatestVersionWithFallback, under SpecResolve *)

\* the '/latest' request gave no version: it failed, or the body of its OK
\* response did not parse to an object with a version string
PrimaryFailed(ev) ==
    \/ Failed(ev)
    \/ /\ ev.end = "body"
       /\ ~(ev.body.json = "object" /\ ev.body.vkind = "string")

\* the metadata request gave no version: it failed, or the body of its OK
\* response did not parse to an object, or lists no x.y.z version
MetaFailed(ev) ==
    \/ Failed(ev)
    \/ /\ ev.end = "body"
       /\ \/ ev.body.json # "object"
          \/ \A k \in DOMAIN ev.body.keys : ~IsStrictSemver(ev.body.keys[k])

(* C23 as stated: the full-metadata request is issued only if the '/latest'
   request's network call failed or returned a non-OK status, "latest" is
   returned only if the metadata request also failed, and a '/latest'
   request answered with an OK status never leads to a second request. *)
C23_SecondRequestOnlyAfterNotOk ==
    \A i \in Calls :
        /\ Len(reqs[i]) >= 2 =>
              /\ Len(seen[i]) >= 1
              /\ seen[i][1].status \in {"none", "notok"}
        /\ (Len(seen[i]) >= 1 /\ seen[i][1].status = "ok") => Len(reqs[i]) = 1
        /\ (Done(i) /\ result[i][1].version = Latest) =>
              (Len(seen[i]) = 2 /\ MetaFailed(seen[i][2]))

(* C23, amended: the full-metadata request is issued only if the primary
   attempt gave no version (the '/latest' request failed or timed out, was
   answered with a non-OK status, or the body of its OK response could not
   be read, did not parse or carried no version string); "latest" is
   returned only if the metadata attempt gave no version either; and a
   '/latest' request answered with an OK status and a body that carries a
   version string never leads to a second request. *)
C23_FallbackOnlyAfterFailure ==
    \A i \in Calls :
        /\ Len(reqs[i]) >= 2 =>
              /\ Len(seen[i]) >= 1
              /\ PrimaryFailed(seen[i][1])
        /\ (Len(seen[i]) >= 1 /\ ~PrimaryFailed(seen[i][1])) =>
              /\ Len(reqs[i]) = 1 /\ Done(i)
              /\ "usedFallback" \notin DOMAIN result[i][1]
        /\ (Done(i) /\ result[i][1].version = Latest) =>
              /\ Len(seen[i]) = 2
              /\ PrimaryFailed(seen[i][1])
              /\ MetaFailed(seen[i][2])

\* the '/latest' request was answered OK with a body that does not parse,
\* the metadata request was issued and answered non-OK: "latest"
C23_Witness ==
    \E i \in Calls :
        /\ Done(i) /\ reqs[i] = <<"latest", "meta">>
        /\ seen[i][1].status = "ok" /\ seen[i][1].end = "body"
        /\ seen[i][1].body.json = "unparsable"
        /\ seen[i][2].end = "status"
        /\ result[i][1].version = Latest

\* how often the call issued the request
Issued(i, req) == Cardinality({k \in DOMAIN reqs[i] : reqs[i][k] = req})

(* C24: within one call of getLatestVersionWithFallback the tiers are
   attempted in the order primary, Fallback 1, Fallback 2, each at most
   once: the requests issued are the '/latest' request, or the '/latest'
   request followed by the full-metadata request, each request ends once and
   in the order issued, and after a request has failed no request of its
   kind is issued again. *)
C24_TiersOnceInOrder ==
    \A i \in Calls :
        /\ reqs[i] \in {<<>>, <<"latest">>, <<"latest", "meta">>}
        /\ Issued(i, "latest") <= 1 /\ Issued(i, "meta") <= 1
        /\ Len(seen[i]) <= Len(reqs[i])
        /\ \A k \in DOMAIN seen[i] : seen[i][k].req = reqs[i][k]
        /\ (Done(i) /\ result[i][1].version = Latest) =>
              reqs[i] = <<"latest", "meta">>
        /\ Done(i) => AllEnded(i)

\* both tiers failed on a timeout: two requests were issued, one of each
\* kind, and the call resolved with "latest"
C24_Witness ==
    \E i \in Calls :
        /\ Done(i) /\ reqs[i] = <<"latest", "meta">>
        /\ seen[i][1].end = "timeout" /\ seen[i][2].end = "timeout"
        /\ result[i][1].version = Latest

\* the x.y.z keys of a metadata body
StableKeys(body) ==
    {body.keys[k] : k \in {j \in DOMAIN body.keys : IsStrictSemver(body.keys[j])}}

\* the rank of an x.y.z version with components below 100 in semantic order
SemRank(v) ==
    LET p == SplitDot(v)
    IN  10000 * DecValue(p[1]) + 100 * DecValue(p[2]) + DecValue(p[3])

\* the highest version of a set in semantic order
Highest(S) == CHOOSE v \in S : \A w \in S : SemRank(v) >= SemRank(w)

\* the age in whole days of a key: 0 when the body has no time for it
AgeDays(body, v) ==
    IF body.time[v] = <<>> THEN 0 ELSE body.time[v][1] \div 24

(* C25: when the full-metadata request succeeds and at least one version is
   x.y.z, getStableFallbackVersion returns '^' + v with usedFallback = true,
   v being the highest x.y.z version in semantic order that is at least 30
   whole days old, or the highest x.y.z version when none is that old; no
   pre-release is returned, and a version without a publish time counts as 0
   days old. *)
C25_StableFallbackChoice ==
    \A i \in Calls :
        (/\ Done(i) /\ Len(seen[i]) = 2
         /\ seen[i][2].end = "body" /\ seen[i][2].body.json = "object"
         /\ StableKeys(seen[i][2].body) # {})
        => LET body == seen[i][2].body
               r == result[i][1]
               old == {v \in StableKeys(body) : AgeDays(body, v) >= 30}
               v == Highest(IF old # {} THEN old ELSE StableKeys(body))
           IN  /\ r.version = <<"^">> \o v
               /\ "usedFallback" \in DOMAIN r /\ r.usedFallback = TRUE
               /\ ~Includes(r.version, "-")
               /\ IsCaretSemver(r.version)

\* 1.10.0 is 30 days old and 2.0.0 one hour short of 30 days: ^1.10.0
C25_Witness ==
    \E i \in Calls :
          /\ Done(i) /\ Len(seen[i]) = 2 /\ seen[i][2].end = "body"
          /\ seen[i][2].body.json = "object"
          /\ seen[i][2].body.keys = <<Ver(1, 10, 0), Ver(2, 0, 0)>>
          /\ seen[i][2].body.time[Ver(1, 10, 0)] = <<720>>
          /\ seen[i][2].body.time[Ver(2, 0, 0)] = <<719>>
          /\ result[i][1].version = Caret(Ver(1, 10, 0))

----------------------------------------------------------------------------
(* SpecCompare: compareVersions on every pair of three versions, and the   *)
(* sort of getStableFallbackVersion on the three                           *)

\* the components: one-digit and two-digit numbers around the digit change
CmpComps == {0, 1, 9, 10}

\* three-component versions, and one with a leading zero
CmpVersions ==
    {Ver(x, y, z) : x \in CmpComps, y \in CmpComps, z \in {0, 9}}
    \cup {<<"0", "1">> \o <<".">> \o NatStr(10) \o <<".">> \o NatStr(0)}

InitCompare ==
    /\ cmpIn \in [a : CmpVersions, b : CmpVersions, c : CmpVersions]
    /\ cmpOut = <<>>
    /\ warnIn = <<>> /\ warnOut = <<>>
    /\ IdleNpm /\ IdleActions /\ IdleNode /\ IdleGen

\* lines 21-30 and 81-82: compareVersions is called on the pairs, and the
\* three versions are sorted with it and reversed
CallCompareVersions ==
    /\ cmpIn # <<>>
    /\ cmpOut = <<>>
    /\ cmpOut' = <<[ab |-> compareVersions(cmpIn.a, cmpIn.b),
                    ba |-> compareVersions(cmpIn.b, cmpIn.a),
                    bc |-> compareVersions(cmpIn.b, cmpIn.c),
                    ac |-> compareVersions(cmpIn.a, cmpIn.c),
                    sorted |-> Reverse(SortVersions(
                                   <<cmpIn.a, cmpIn.b, cmpIn.c>>))]>>
    /\ UNCHANGED <<warnIn, warnOut, cmpIn>>
    /\ UNCHANGED <<npmVars, actVars, nodeVars, genVars>>

NextCompare == CallCompareVersions

SpecCompare == InitCompare /\ [][NextCompare]_vars

\* major, minor and patch of an x.y.z version, as numbers
Triple(v) ==
    LET p == SplitDot(v)
    IN  <<DecValue(p[1]), DecValue(p[2]), DecValue(p[3])>>

\* s is after t in semantic order
After(s, t) ==
    \/ s[1] > t[1]
    \/ s[1] = t[1] /\ s[2] > t[2]
    \/ s[1] = t[1] /\ s[2] = t[2] /\ s[3] > t[3]

(* C26: compareVersions(a, b) on three-component versions compares major,
   then minor, then patch as numbers (1.10.0 > 1.9.0, 10.0.0 > 9.9.9); it
   returns 0 only for equal triples, compare(a, b) = -compare(b, a), it is
   transitive, and sorting with it and reversing gives the versions in
   descending semantic order, strictly so for distinct triples. *)
C26_NumericOrder ==
    cmpOut # <<>> =>
        LET o == cmpOut[1]
            ta == Triple(cmpIn.a)
            tb == Triple(cmpIn.b)
            given == <<cmpIn.a, cmpIn.b, cmpIn.c>>
        IN  /\ o.ab \in {-1, 0, 1}
            /\ o.ab = 1 <=> After(ta, tb)
            /\ o.ab = -1 <=> After(tb, ta)
            /\ o.ab = 0 <=> ta = tb
            /\ o.ab = 0 - o.ba
            /\ (o.ab >= 0 /\ o.bc >= 0) => o.ac >= 0
            /\ (o.ab >= 0 /\ o.bc >= 0 /\ (o.ab > 0 \/ o.bc > 0)) => o.ac > 0
            /\ \E f \in [1..3 -> 1..3] :
                  /\ \A i, j \in 1..3 : i # j => f[i] # f[j]
                  /\ \A i \in 1..3 : o.sorted[i] = given[f[i]]
            /\ \A i \in 1..2 :
                  /\ ~After(Triple(o.sorted[i + 1]), Triple(o.sorted[i]))
                  /\ Triple(o.sorted[i + 1]) # Triple(o.sorted[i]) =>
                        After(Triple(o.sorted[i]), Triple(o.sorted[i + 1]))

\* 1.10.0 against 1.9.0 is 1, and 9.9.9, 10.0.0, 1.10.0 sort to 10.0.0,
\* 9.9.9, 1.10.0
C26_Witness ==
    /\ cmpOut # <<>>
    /\ cmpIn = [a |-> Ver(9, 9, 9), b |-> Ver(10, 0, 0), c |-> Ver(1, 10, 0)]
    /\ cmpOut[1].ab = -1 /\ cmpOut[1].bc = 1
    /\ cmpOut[1].sorted = <<Ver(10, 0, 0), Ver(9, 9, 9), Ver(1, 10, 0)>>

----------------------------------------------------------------------------
(* Claims about fetchLatestMajorVersion, under SpecMajor *)

\* the numbers that /^v?(\d+)/ captures in the tag, as a set: empty when the
\* tag does not match
TagMajors(tag) ==
    LET rest == IF Len(tag) > 0 /\ tag[1] = "v" THEN SubSeq(tag, 2, Len(tag))
                ELSE tag
        k == Max({0} \cup {n \in 1..Len(rest) : AllDigits(SubSeq(rest, 1, n))})
    IN  IF k = 0 THEN {} ELSE {DecValue(SubSeq(rest, 1, k))}

\* the releases of the body that are neither draft nor prerelease
StableOf(body) ==
    {body.releases[k] :
        k \in {j \in DOMAIN body.releases :
                  ~body.releases[j].draft /\ ~body.releases[j].prerelease}}

\* the positive majors of the stable releases of the body
StableMajors(body) ==
    {n \in UNION {TagMajors(r.tag_name) : r \in StableOf(body)} : n > 0}

(* C27: when the releases request succeeds with a list of releases, each
   stable one with a tag name, fetchLatestMajorVersion returns 'v' + the
   highest major that ^v?(\d+) extracts from the tag names of the releases
   that are neither draft nor prerelease, without a usedFallback flag; if no
   stable release yields a positive major, the default tag with usedFallback
   = true; and every version returned is v<N> with N positive. *)
C27_HighestStableMajor ==
    \A i \in DOMAIN apc :
        (apc[i] = "done" /\ aresult[i] # <<>>) =>
            LET r == aresult[i][1]
                ev == aseen[i][1]
            IN  /\ IsMajorTag(r.version)
                /\ (/\ ev.end = "body" /\ ev.body.json = "array"
                    /\ \A s \in StableOf(ev.body) : s.tag_name # undefined)
                   => IF StableMajors(ev.body) # {}
                      THEN r = [version |->
                                   <<"v">> \o NumStr(Max(StableMajors(ev.body)))]
                      ELSE /\ r.version = DefaultTag
                           /\ "usedFallback" \in DOMAIN r
                           /\ r.usedFallback = TRUE
                /\ (ev.end = "body" /\ ev.body.json # "array") =>
                      /\ r.version = DefaultTag
                      /\ "usedFallback" \in DOMAIN r /\ r.usedFallback = TRUE

\* the releases are v10, a prerelease, and 4.2: v4, and no usedFallback flag
C27_Witness ==
    /\ apc[1] = "done" /\ aseen[1] # <<>>
    /\ aseen[1][1].end = "body"
    /\ aseen[1][1].body =
          ReleasesArray(<<Release(<<"v", "1", "0">>, TRUE, FALSE),
                          Release(<<"4", ".", "2">>, FALSE, FALSE)>>)
    /\ aresult[1][1] = [version |-> <<"v", "4">>]

----------------------------------------------------------------------------
(* The exports map against Node's module detection, under SpecManifest *)

\* how Node parses a file of the package: .mjs as ESM, .cjs as CommonJS,
\* .js as the type field of the manifest says (CommonJS without one)
ParsedAs(m, path) ==
    CASE Ext(path) = ".mjs" -> "esm"
      [] Ext(path) = ".cjs" -> "commonjs"
      [] OTHER -> IF Has(m, "type") /\ m.type = "module" THEN "esm"
                  ELSE "commonjs"

(* C28: for every (language, moduleType), under Node's module-detection
   rule, every file that an 'import' condition of the generated exports map
   targets is parsed as ESM and every file that a 'require' condition
   targets is parsed as CommonJS. *)
C28_ConditionsMatchFormat ==
    pkg # <<>> =>
        \A k \in DOMAIN pkg[1].exports :
            LET e == pkg[1].exports[k]
            IN  e.kind = "conditions" =>
                   /\ Has(e.conds, "import") =>
                         ParsedAs(pkg[1], e.conds.import) = "esm"
                   /\ Has(e.conds, "require") =>
                         ParsedAs(pkg[1], e.conds.require) = "commonjs"

----------------------------------------------------------------------------
(* SpecScaffold: the manifest and the workflows of one project, generated  *)
(* from the same configuration                                             *)

InitScaffold ==
    /\ ciIn \in [config : CIConfigs, nodeConfig : {FALLBACK_NODE_CONFIG},
                 actionVersions : {MapOf(<<>>)}]
    /\ config = ciIn.config
    /\ pkg = <<>> /\ ciOut = <<>> /\ cdOut = <<>>
    /\ IdleWarn /\ IdleNpm /\ IdleActions /\ IdleNode

NextScaffold ==
    \/ CallGeneratePackageJson
    \/ CallGenerateCIWorkflow
    \/ CallGenerateCDWorkflow

SpecScaffold == InitScaffold /\ [][NextScaffold]_vars

\* the scripts that the steps of the CI workflow run with 'npm run'
CIScripts == {"typecheck", "lint", "test:coverage", "build"}

(* C29: for every configuration, each 'npm run <name>' step that
   generateCIWorkflow emits (typecheck, lint, test:coverage, build) names a
   script that the scripts of the package.json generated for the same
   configuration define. *)
C29_StepsRunDefinedScripts ==
    (pkg # <<>> /\ ciOut # <<>>) =>
        \A name \in CIScripts :
            Runs(ciOut[1], "npm run " \o name) =>
                name \in DOMAIN pkg[1].scripts

(* C30: for every supported action key, the default tag that
   fetchLatestMajorVersion returns when its request fails is that key's
   entry in FALLBACK_VERSIONS. *)
C30_DefaultIsTableEntry ==
    /\ DOMAIN FALLBACK_VERSIONS = {KeyOf(i) : i \in Actions}
    /\ \A i \in DOMAIN apc :
          (apc[i] = "done" /\ aseen[i] # <<>> /\ Failed(aseen[i][1])) =>
              aresult[i][1].version = FALLBACK_VERSIONS[KeyOf(i)]

=============================================================================
